---- MODULE Spec2Model ----
(***************************************************************************)
(* Model of the atlas-swap program's Operation Processor                   *)
(* (program/src/processor.rs), its Fee schedule (curve/fees.rs) and its    *)
(* admission constraints (constraints.rs).                                 *)
(*                                                                         *)
(* One action per instruction handler.  A handler is modelled as it runs:  *)
(* the checks in source order, the first failing check returning its       *)
(* error, and every cross-program call (allocate, mint_to, transfer, burn) *)
(* and every record write applied at the point where the handler issues    *)
(* it.  The state after an action is the account state the handler leaves  *)
(* behind when it returns, whether it returns Ok or an error.              *)
(***************************************************************************)
EXTENDS Integers, Sequences, FiniteSets, TLC

\* ------------------------------------------------------------ constants.rs

INITIAL_PROGRAM_OWNER == "FABSYVqYSKogNUSRK6xBC3wRCTX6Gba9jMcHvLuEqC3G"

MIN_LP_SUPPLY == 100000

MINIMUM_FEES ==
  [ constant_product_return_fee_numerator |-> 0,
    constant_product_fixed_fee_numerator  |-> 0,
    stable_return_fee_numerator           |-> 0,
    stable_fixed_fee_numerator            |-> 0,
    fee_denominator                       |-> 10000 ]

VALID_CURVE_TYPES == {"Stable", "ConstantProduct"}

SWAP_CONSTRAINTS == [valid_curve_types |-> VALID_CURVE_TYPES, fees |-> MINIMUM_FEES]

SwapConstraints_validate_fees_mut(c, fees) ==
  /\ fees.constant_product_return_fee_numerator >= c.fees.constant_product_return_fee_numerator
  /\ fees.constant_product_fixed_fee_numerator >= c.fees.constant_product_fixed_fee_numerator
  /\ fees.stable_return_fee_numerator >= c.fees.stable_return_fee_numerator
  /\ fees.stable_fixed_fee_numerator >= c.fees.stable_fixed_fee_numerator

\* SwapConstraints::validate_fees with self = c: TRUE iff Ok(()).
SwapConstraints_validate_fees(c, fees) ==
  /\ fees.constant_product_return_fee_numerator >= c.fees.constant_product_return_fee_numerator
  /\ fees.constant_product_fixed_fee_numerator >= c.fees.constant_product_fixed_fee_numerator
  /\ fees.stable_return_fee_numerator >= c.fees.stable_return_fee_numerator
  /\ fees.stable_fixed_fee_numerator >= c.fees.stable_fixed_fee_numerator
  /\ fees.fee_denominator = c.fees.fee_denominator

validate_fees_mut(fees) == TRUE

\* SWAP_CONSTRAINTS.validate_fees(&fees) as called by the processor.
validate_fees(fees) == SwapConstraints_validate_fees(SWAP_CONSTRAINTS, fees)

\* SwapConstraints::validate_curve: TRUE iff Ok(()).
validate_curve(swap_curve) == swap_curve.curve_type \in SWAP_CONSTRAINTS.valid_curve_types

\* ------------------------------------------------------------ curve/fees.rs

Fees_all_zero_mut(f) == f.fee_denominator = 0

\* The first branch of Fees::validate: the all-zero schedule.
Fees_all_zero(f) ==
  /\ f.fee_denominator = 0
  /\ f.constant_product_fixed_fee_numerator = 0
  /\ f.stable_fixed_fee_numerator = 0
  /\ f.constant_product_return_fee_numerator = 0
  /\ f.stable_return_fee_numerator = 0

Fees_out_of_bounds_none_mut(f) == FALSE

Fees_out_of_bounds_mut(f) ==
  \/ f.constant_product_fixed_fee_numerator >= f.fee_denominator
  \/ f.stable_fixed_fee_numerator >= f.fee_denominator
  \/ f.constant_product_return_fee_numerator >= f.fee_denominator
  \/ f.stable_return_fee_numerator >= f.fee_denominator

\* The second branch of Fees::validate: the condition that yields InvalidFee.
\* The || chain short-circuits, so the two subtractions are evaluated only
\* when every numerator is below the denominator and cannot wrap.
Fees_out_of_bounds(f) ==
  \/ f.constant_product_fixed_fee_numerator >= f.fee_denominator
  \/ f.stable_fixed_fee_numerator >= f.fee_denominator
  \/ f.constant_product_return_fee_numerator >= f.fee_denominator
  \/ f.stable_return_fee_numerator >= f.fee_denominator
  \/ f.constant_product_fixed_fee_numerator
       >= f.fee_denominator - f.constant_product_return_fee_numerator
  \/ f.stable_fixed_fee_numerator
       >= f.fee_denominator - f.stable_return_fee_numerator

\* Fees::validate: TRUE iff Ok(()).
Fees_validate(f) ==
  IF Fees_all_zero(f) THEN TRUE
  ELSE IF Fees_out_of_bounds(f) THEN FALSE
  ELSE TRUE

\* None of an Option<u128>; Some(v) is v.
None == -1

\* None of an Option whose Some carries a record.
NoResult == [none |-> TRUE]

\* u128::MAX, scaled to 2^24 - 1 so that a product beyond it is still a
\* number the checker can hold.  Every amount of the model is far below it.
U128_MAX == 16777215

checked_mul_mut(a, b) == (a * b) % (U128_MAX + 1)

\* u128::checked_mul: None when the product does not fit.
checked_mul(a, b) == IF b # 0 /\ a > U128_MAX \div b THEN None ELSE a * b

\* u128::checked_div: None when the divisor is zero.
checked_div(a, b) == IF b = 0 THEN None ELSE a \div b

minimum_fee_mut(fee) == fee

\* The last branch of calculate_fee: a minimum fee of one token.
minimum_fee(fee) == IF fee = 0 THEN 1 ELSE fee

\* calculate_fee: the value of Some(v), or None.
calculate_fee(token_amount, fee_numerator, fee_denominator) ==
  IF fee_numerator = 0 \/ token_amount = 0 THEN 0
  ELSE LET product == checked_mul(token_amount, fee_numerator)
       IN IF product = None THEN None
          ELSE LET fee == checked_div(product, fee_denominator)
               IN IF fee = None THEN None ELSE minimum_fee(fee)

return_fee_mut(f, trading_tokens, swap_curve) ==
  LET return_fee_numerator ==
        CASE swap_curve.curve_type = "ConstantProduct" -> f.constant_product_return_fee_numerator
          [] swap_curve.curve_type = "Stable" -> f.stable_return_fee_numerator
          [] OTHER -> f.stable_return_fee_numerator
  IN calculate_fee(trading_tokens, return_fee_numerator, f.fee_denominator)

\* Fees::return_fee
return_fee(f, trading_tokens, swap_curve) ==
  LET return_fee_numerator ==
        CASE swap_curve.curve_type = "ConstantProduct" -> f.constant_product_return_fee_numerator
          [] swap_curve.curve_type = "Stable" -> f.stable_return_fee_numerator
          [] OTHER -> f.constant_product_return_fee_numerator
  IN calculate_fee(trading_tokens, return_fee_numerator, f.fee_denominator)

\* Fees::fixed_fee
fixed_fee(f, trading_tokens, swap_curve) ==
  LET fixed_fee_numerator ==
        CASE swap_curve.curve_type = "ConstantProduct" -> f.constant_product_fixed_fee_numerator
          [] swap_curve.curve_type = "Stable" -> f.stable_fixed_fee_numerator
          [] OTHER -> f.constant_product_fixed_fee_numerator
  IN calculate_fee(trading_tokens, fixed_fee_numerator, f.fee_denominator)

\* ------------------------------------------------------------ the world

\* Principals (wallet public keys).  The bootstrap principal is one of them.
Principals == {INITIAL_PROGRAM_OWNER, "alice", "bob"}

\* Pubkey::default(), the owner field of a zeroed record.
ZeroPubkey == "11111111111111111111111111111111"

\* The ledger program that owns every token account and mint of the model,
\* and a second program id a caller may pass instead.
SplToken == "spl_token"

\* The pool's storage account and the address derived from it
\* (Pubkey::find_program_address(&[swap_info.key], program_id)).
PoolAuthority == "pool_authority"
PoolNonce == 255

\* Token accounts of the ledger with the fields the processor reads that no
\* instruction of this program changes: owner, mint, delegate,
\* close_authority and the frozen state.
TokenAccountShape ==
  [ resA      |-> [owner |-> PoolAuthority, mint |-> "X", delegate |-> FALSE, close_authority |-> FALSE, frozen |-> FALSE],
    resB      |-> [owner |-> PoolAuthority, mint |-> "Y", delegate |-> FALSE, close_authority |-> FALSE, frozen |-> FALSE],
    resX2     |-> [owner |-> PoolAuthority, mint |-> "X", delegate |-> FALSE, close_authority |-> FALSE, frozen |-> FALSE],
    resDeleg  |-> [owner |-> PoolAuthority, mint |-> "Y", delegate |-> TRUE,  close_authority |-> FALSE, frozen |-> FALSE],
    resClose  |-> [owner |-> PoolAuthority, mint |-> "Y", delegate |-> FALSE, close_authority |-> TRUE,  frozen |-> FALSE],
    resFrozen |-> [owner |-> PoolAuthority, mint |-> "Y", delegate |-> FALSE, close_authority |-> FALSE, frozen |-> TRUE],
    resEmpty  |-> [owner |-> PoolAuthority, mint |-> "Y", delegate |-> FALSE, close_authority |-> FALSE, frozen |-> FALSE],
    authLP    |-> [owner |-> PoolAuthority, mint |-> "LP6", delegate |-> FALSE, close_authority |-> FALSE, frozen |-> FALSE],
    userA     |-> [owner |-> "alice", mint |-> "X", delegate |-> FALSE, close_authority |-> FALSE, frozen |-> FALSE],
    userB     |-> [owner |-> "alice", mint |-> "Y", delegate |-> FALSE, close_authority |-> FALSE, frozen |-> FALSE],
    userLP    |-> [owner |-> "alice", mint |-> "LP6", delegate |-> FALSE, close_authority |-> FALSE, frozen |-> FALSE],
    userLP9   |-> [owner |-> "alice", mint |-> "LP9", delegate |-> FALSE, close_authority |-> FALSE, frozen |-> FALSE],
    feeA      |-> [owner |-> "bob", mint |-> "X", delegate |-> FALSE, close_authority |-> FALSE, frozen |-> FALSE],
    feeB      |-> [owner |-> "bob", mint |-> "Y", delegate |-> FALSE, close_authority |-> FALSE, frozen |-> FALSE] ]

TokenAccounts == DOMAIN TokenAccountShape

\* Pool-share mints with the fields no instruction of this program changes.
MintShape ==
  [ LP6       |-> [decimals |-> 6, mint_authority |-> PoolAuthority, freeze_authority |-> FALSE],
    LP9       |-> [decimals |-> 9, mint_authority |-> PoolAuthority, freeze_authority |-> FALSE],
    LPFreeze  |-> [decimals |-> 6, mint_authority |-> PoolAuthority, freeze_authority |-> TRUE],
    LPForeign |-> [decimals |-> 6, mint_authority |-> "alice",       freeze_authority |-> FALSE] ]

Mints == DOMAIN MintShape

ZeroFees ==
  [ constant_product_return_fee_numerator |-> 0,
    constant_product_fixed_fee_numerator  |-> 0,
    stable_return_fee_numerator           |-> 0,
    stable_fixed_fee_numerator            |-> 0,
    fee_denominator                       |-> 0 ]

\* Fee schedules a SetGlobalState request may carry: <<cp_return, cp_fixed,
\* stable_return, stable_fixed, denominator>>.
MkFees(t) ==
  [ constant_product_return_fee_numerator |-> t[1],
    constant_product_fixed_fee_numerator  |-> t[2],
    stable_return_fee_numerator           |-> t[3],
    stable_fixed_fee_numerator            |-> t[4],
    fee_denominator                       |-> t[5] ]

FeeChoices ==
  { ZeroFees,
    MkFees(<<0, 0, 0, 0, 10000>>),
    MkFees(<<25, 5, 4, 1, 10000>>),
    MkFees(<<25, 5, 4, 1, 1000>>),
    MkFees(<<6000, 4000, 0, 0, 10000>>),
    MkFees(<<0, 0, 10000, 0, 10000>>) }

\* ------------------------------------------------------------ bounds

\* Largest number of Swap, Deposit and Withdraw instructions of one behaviour
\* that move tokens; further ones are not considered.
MaxTrades == 1

\* ------------------------------------------------------------ state

VARIABLES
  globalState,   \* the Governance Record account (state::GlobalState)
  swapInfo,      \* the Pool Record account (state::SwapVersion::SwapV1)
  amount,        \* spl_token Account.amount of every token account
  supply,        \* spl_token Mint.supply of every mint
  trades,        \* number of instructions so far that moved tokens of a pool
  last,          \* the last instruction processed and what it returned
  call           \* the last evaluation of a function of fees.rs or constraints.rs

vars == <<globalState, swapInfo, amount, supply, trades, last, call>>

\* A Governance Record whose storage holds zeroes (or is not allocated).
ZeroGlobalState(empty) ==
  [ data_is_empty  |-> empty,
    is_initialized |-> FALSE,
    initial_supply |-> 0,
    lp_decimals    |-> 0,
    owner          |-> ZeroPubkey,
    fee_owner      |-> ZeroPubkey,
    fees           |-> ZeroFees ]

NoCurve == [curve_type |-> "None", params_ok |-> FALSE]

\* A Pool Record account whose storage holds zeroes.  data_len_ok says
\* whether the account was created with the packed length of SwapVersion.
ZeroSwapInfo(len_ok) ==
  [ data_len_ok      |-> len_ok,
    is_initialized   |-> FALSE,
    nonce            |-> 0,
    token_program_id |-> ZeroPubkey,
    token_a          |-> ZeroPubkey,
    token_b          |-> ZeroPubkey,
    pool_mint        |-> ZeroPubkey,
    token_a_mint     |-> ZeroPubkey,
    token_b_mint     |-> ZeroPubkey,
    swap_curve       |-> NoCurve ]

\* The request of an instruction that was rejected is not kept.
NoRequest == [none |-> TRUE]

\* last: the instruction processed last, what it returned, the calls and
\* record writes it issued before returning, who submitted it and whether
\* they signed, whether the Governance Record was initialized when it
\* started, the pool-share amount it asked for, and its request if it
\* returned Ok.
NoOp == [op |-> "none", result |-> "none", effects |-> <<>>, caller |-> ZeroPubkey,
         is_signer |-> FALSE, was_initialized |-> FALSE, requested |-> 0,
         request |-> NoRequest]

Kept(result, a) == IF result = "Ok" THEN a ELSE NoRequest

\* No function has been evaluated on its own.
NoCall == [fn |-> "none", args |-> <<>>, ret |-> None]

InitialAmount ==
  [a \in TokenAccounts |->
     CASE a \in {"resA", "resB", "resX2", "resDeleg", "resClose", "resFrozen"} -> 1000
       [] a \in {"userA", "userB"} -> 1000
       [] OTHER -> 0]

Init ==
  /\ globalState = ZeroGlobalState(TRUE)
  /\ \E len_ok \in BOOLEAN : swapInfo = ZeroSwapInfo(len_ok)
  /\ amount = InitialAmount
  /\ supply = [m \in Mints |-> 0]
  /\ trades = 0
  /\ last = NoOp
  /\ call = NoCall

\* ------------------------------------------------------------ effects

\* One cross-program call or record write issued by a handler.
Effect(kind, src, dst, amt) == [kind |-> kind, src |-> src, dst |-> dst, amt |-> amt]

\* ------------------------------------------------------------ SetGlobalState

\* The owner the handler compares the caller with: the stored owner of an
\* initialized record, the bootstrap principal otherwise.
current_owner_mut(gs) == gs.owner

current_owner(gs) ==
  IF gs.is_initialized = FALSE THEN INITIAL_PROGRAM_OWNER ELSE gs.owner

\* The check "global_state.owner != *current_owner_info.key".
owner_mismatch_mut(gs, caller) == FALSE

owner_mismatch(gs, caller) == current_owner(gs) # caller

new_global_state_mut(a) ==
  [ data_is_empty  |-> FALSE,
    is_initialized |-> FALSE,
    initial_supply |-> a.initial_supply,
    lp_decimals    |-> a.lp_decimals,
    owner          |-> a.owner,
    fee_owner      |-> a.fee_owner,
    fees           |-> a.fees ]

\* The record the handler packs after every check has passed.
new_global_state(a) ==
  [ data_is_empty  |-> FALSE,
    is_initialized |-> TRUE,
    initial_supply |-> a.initial_supply,
    lp_decimals    |-> a.lp_decimals,
    owner          |-> a.owner,
    fee_owner      |-> a.fee_owner,
    fees           |-> a.fees ]

\* create_or_allocate_account_raw on the Governance Record: the payer funds
\* the rent, then the storage is allocated (zeroed) and assigned.
allocated(gs) == [gs EXCEPT !.data_is_empty = FALSE]

\* What process_set_global_state returns and the Governance Record it
\* leaves, for the request a on the record gs.
set_global_state(gs, a) ==
  IF ~a.pda_ok THEN [result |-> "InvalidProgramAddress", gs |-> gs, effects |-> <<>>]
  ELSE IF ~a.is_signer THEN [result |-> "InvalidSigner", gs |-> gs, effects |-> <<>>]
  ELSE IF ~a.system_ok THEN [result |-> "InvalidSystemProgramId", gs |-> gs, effects |-> <<>>]
  ELSE IF ~a.rent_ok THEN [result |-> "InvalidRentSysvarId", gs |-> gs, effects |-> <<>>]
  ELSE IF gs.data_is_empty /\ ~a.payer_funded
    THEN [result |-> "SystemTransferFailed", gs |-> gs, effects |-> <<>>]
  ELSE
    LET g1 == IF gs.data_is_empty THEN allocated(gs) ELSE gs
        e1 == IF gs.data_is_empty
                THEN <<Effect("allocate", a.caller, "global_state", 0)>> ELSE <<>>
    IN IF owner_mismatch(g1, a.caller)
         THEN [result |-> "InvalidProgramOwner", gs |-> g1, effects |-> e1]
       ELSE IF ~validate_fees(a.fees)
         THEN [result |-> "InvalidFee", gs |-> g1, effects |-> e1]
       ELSE IF ~Fees_validate(a.fees)
         THEN [result |-> "InvalidFee", gs |-> g1, effects |-> e1]
       ELSE [result |-> "Ok", gs |-> new_global_state(a),
             effects |-> e1 \o <<Effect("pack", a.caller, "global_state", 0)>>]

\* The configurations a SetGlobalState request may carry:
\* <<initial_supply, lp_decimals, fee_owner, fees>>.
DefaultConfig == <<200000, 6, "bob", MkFees(<<0, 0, 0, 0, 10000>>)>>

ConfigChoices ==
  { DefaultConfig,
    <<50000, 6, "bob", MkFees(<<25, 5, 4, 1, 10000>>)>>,
    <<200000, 9, "alice", MkFees(<<0, 0, 0, 0, 10000>>)>> }

\* A configuration whose initial supply is zero: no check of SetGlobalState
\* looks at initial_supply.
EmptyConfig == <<0, 6, "bob", MkFees(<<0, 0, 0, 0, 10000>>)>>

\* The principals a request may name as the new owner.
OwnerChoices == {INITIAL_PROGRAM_OWNER, "alice"}

SetGlobalStateRequest(c, o, k) ==
  [ pda_ok |-> TRUE, is_signer |-> TRUE, system_ok |-> TRUE, rent_ok |-> TRUE,
    payer_funded |-> TRUE, caller |-> c, owner |-> o,
    initial_supply |-> k[1], lp_decimals |-> k[2], fee_owner |-> k[3], fees |-> k[4] ]

\* The well-formed requests, the requests whose fee schedule is any of
\* FeeChoices, and requests that differ from a well-formed one in one
\* account or flag.
SetGlobalStateArgs ==
  LET good == { SetGlobalStateRequest(c, o, k) :
                  c \in Principals, o \in OwnerChoices, k \in ConfigChoices }
      fee  == { SetGlobalStateRequest(c, "alice", <<200000, 6, "bob", f>>) :
                  c \in Principals, f \in FeeChoices }
      some == { SetGlobalStateRequest(c, "alice", DefaultConfig) : c \in OwnerChoices }
  IN good \cup fee
     \cup { SetGlobalStateRequest(INITIAL_PROGRAM_OWNER, INITIAL_PROGRAM_OWNER, EmptyConfig) }
     \cup { [g EXCEPT !.pda_ok = FALSE] : g \in some }
     \cup { [g EXCEPT !.is_signer = FALSE] : g \in some }
     \cup { [g EXCEPT !.system_ok = FALSE] : g \in some }
     \cup { [g EXCEPT !.rent_ok = FALSE] : g \in some }
     \cup { [g EXCEPT !.payer_funded = FALSE] : g \in some }

process_set_global_state ==
  \E a \in SetGlobalStateArgs :
    LET out == set_global_state(globalState, a)
    IN /\ globalState' = out.gs
       /\ last' = [NoOp EXCEPT !.op = "SetGlobalState", !.result = out.result,
                               !.effects = out.effects, !.caller = a.caller,
                               !.is_signer = a.is_signer,
                               !.was_initialized = globalState.is_initialized,
                               !.request = Kept(out.result, a)]
       /\ UNCHANGED <<swapInfo, amount, supply, trades, call>>

\* ------------------------------------------------------------ the ledger

\* spl_token MintTo as the handler's CPI sees it: it fails when the
\* destination account is not an account of the mint.
mint_to_fails(mint, destination) == TokenAccountShape[destination].mint # mint

\* The error of one spl_token call on the balances am and supplies su, or
\* "Ok": Transfer(src, dst), MintTo(src = mint, dst), Burn(src, dst = mint).
effect_error(e, am, su) ==
  CASE e.kind = "transfer" ->
         IF TokenAccountShape[e.src].mint # TokenAccountShape[e.dst].mint THEN "MintMismatch"
         ELSE IF am[e.src] < e.amt THEN "InsufficientFunds"
         ELSE "Ok"
    [] e.kind = "mint_to" -> IF mint_to_fails(e.src, e.dst) THEN "MintMismatch" ELSE "Ok"
    [] e.kind = "burn" ->
         IF TokenAccountShape[e.src].mint # e.dst THEN "MintMismatch"
         ELSE IF am[e.src] < e.amt THEN "InsufficientFunds"
         ELSE "Ok"

\* The balances after one successful spl_token call.
amount_after(e, am) ==
  CASE e.kind = "transfer" -> [am EXCEPT ![e.src] = @ - e.amt, ![e.dst] = am[e.dst] + e.amt]
    [] e.kind = "mint_to" -> [am EXCEPT ![e.dst] = @ + e.amt]
    [] e.kind = "burn" -> [am EXCEPT ![e.src] = @ - e.amt]

\* The supplies after one successful spl_token call.
supply_after(e, su) ==
  CASE e.kind = "transfer" -> su
    [] e.kind = "mint_to" -> [su EXCEPT ![e.src] = @ + e.amt]
    [] e.kind = "burn" -> [su EXCEPT ![e.dst] = @ - e.amt]

\* The handler issues its calls one after the other, each followed by "?":
\* the first call that fails ends the handler with that error, the calls
\* before it having been made.
RECURSIVE issue(_, _, _, _)
issue(calls, am, su, done) ==
  IF calls = <<>> THEN [result |-> "Ok", amount |-> am, supply |-> su, effects |-> done]
  ELSE LET e == Head(calls)
           r == effect_error(e, am, su)
       IN IF r # "Ok" THEN [result |-> r, amount |-> am, supply |-> su, effects |-> done]
          ELSE issue(Tail(calls), amount_after(e, am), supply_after(e, su), Append(done, e))

\* ------------------------------------------------------------ the curve

\* CurveCalculator::validate: rejects structurally invalid parameters.
calculator_validate(swap_curve) == swap_curve.params_ok

\* CurveCalculator::validate_supply: both initial reserves must be nonzero.
validate_supply(token_a_amount, token_b_amount) ==
  token_a_amount # 0 /\ token_b_amount # 0

\* CurveCalculator::allows_deposits
allows_deposits(swap_curve) == swap_curve.curve_type \in {"ConstantProduct", "Stable"}

CeilDiv(a, b) == (a + b - 1) \div b

Min(a, b) == IF a <= b THEN a ELSE b

\* CurveCalculator::pool_tokens_to_trading_tokens: the proportional share of
\* each reserve, rounded as asked; None when the supply is zero.
pool_tokens_to_trading_tokens(pool_tokens, pool_token_supply, swap_token_a_amount, swap_token_b_amount, round_direction) ==
  IF pool_token_supply = 0 THEN NoResult
  ELSE IF round_direction = "Floor"
    THEN [token_a_amount |-> (pool_tokens * swap_token_a_amount) \div pool_token_supply,
          token_b_amount |-> (pool_tokens * swap_token_b_amount) \div pool_token_supply]
    ELSE [token_a_amount |-> CeilDiv(pool_tokens * swap_token_a_amount, pool_token_supply),
          token_b_amount |-> CeilDiv(pool_tokens * swap_token_b_amount, pool_token_supply)]

\* CurveCalculator::swap_without_fees of the constant-product family: the
\* product of the reserves is kept, the destination side rounded up in the
\* pool's favour; None when nothing would be consumed or delivered.
swap_without_fees(source_amount, swap_source_amount, swap_destination_amount) ==
  LET invariant == swap_source_amount * swap_destination_amount
      new_source == swap_source_amount + source_amount
  IN IF new_source = 0 \/ invariant = 0 THEN NoResult
     ELSE LET new_destination == CeilDiv(invariant, new_source)
              needed_source   == CeilDiv(invariant, new_destination)
              src == needed_source - swap_source_amount
              dst == swap_destination_amount - new_destination
          IN IF src <= 0 \/ dst <= 0 THEN NoResult
             ELSE [source_amount_swapped |-> src, destination_amount_swapped |-> dst]

\* SwapCurve::swap: both fees are taken from the amount offered, the rest is
\* priced by the curve, and the fees are added back to the amount consumed.
curve_swap(swap_curve, source_amount, swap_source_amount, swap_destination_amount, fees) ==
  LET rf == return_fee(fees, source_amount, swap_curve)
      ff == fixed_fee(fees, source_amount, swap_curve)
  IN IF rf = None \/ ff = None THEN NoResult
     ELSE IF source_amount < rf + ff THEN NoResult
     ELSE LET r == swap_without_fees(source_amount - (rf + ff), swap_source_amount,
                                     swap_destination_amount)
          IN IF r = NoResult THEN NoResult
             ELSE [source_amount_swapped      |-> r.source_amount_swapped + rf + ff,
                   destination_amount_swapped |-> r.destination_amount_swapped,
                   return_fee                 |-> rf,
                   owner_fee                  |-> ff]

\* ------------------------------------------------------------ Initialize

\* SwapVersion::is_initialized(&swap_info.data): a record that does not
\* unpack counts as not initialized.
SwapVersion_is_initialized(si) == si.data_len_ok /\ si.is_initialized

already_in_use_mut(si) == FALSE

\* The first check of process_initialize:
\* "if SwapVersion::is_initialized(&swap_info.data.borrow())".
already_in_use(si) == SwapVersion_is_initialized(si)

\* GlobalState::unpack_from_slice fails on an account without storage.
GlobalState_unpack_fails(gs) == gs.data_is_empty

state_not_initialized_mut(gs) == FALSE

\* The check "state.is_initialized() == false" of the four pool handlers.
state_not_initialized(gs) == gs.is_initialized = FALSE

decimals_mismatch_mut(pool_mint, gs) == FALSE

\* The check "pool_mint.decimals != state.lp_decimals()".
decimals_mismatch(pool_mint, gs) == pool_mint.decimals # gs.lp_decimals

\* SwapVersion::pack fails when the account does not have the packed length.
SwapVersion_pack_fails(si) == ~si.data_len_ok

reserve_owner_mismatch_mut(authority, token) == FALSE

\* The check "*authority_info.key != token_a.owner" (and token_b.owner).
reserve_owner_mismatch(authority, token) == authority # token.owner

repeated_mint_mut(token_a, token_b) == FALSE

\* The check "token_a.mint == token_b.mint".
repeated_mint(token_a, token_b) == token_a.mint = token_b.mint

\* The amount process_initialize mints: state.initial_supply().
initial_amount_mut(gs) == MIN_LP_SUPPLY

initial_amount(gs) == gs.initial_supply

\* The Pool Record process_initialize packs.
new_swap_info(si, a) ==
  [ data_len_ok      |-> si.data_len_ok,
    is_initialized   |-> TRUE,
    nonce            |-> PoolNonce,
    token_program_id |-> a.token_program,
    token_a          |-> a.token_a,
    token_b          |-> a.token_b,
    pool_mint        |-> a.pool_mint,
    token_a_mint     |-> TokenAccountShape[a.token_a].mint,
    token_b_mint     |-> TokenAccountShape[a.token_b].mint,
    swap_curve       |-> a.swap_curve ]

\* The checks of process_initialize up to the mint, in source order: the
\* error of the first check that fails, or "Ok".
initialize_checks(gs, si, am, su, a) ==
  LET token_a     == TokenAccountShape[a.token_a]
      token_b     == TokenAccountShape[a.token_b]
      destination == TokenAccountShape[a.destination]
      pool_mint   == MintShape[a.pool_mint]
  IN
  IF already_in_use(si) THEN "AlreadyInUse"
  ELSE IF a.authority # PoolAuthority THEN "InvalidProgramAddress"
  ELSE IF ~a.gs_pda_ok THEN "InvalidProgramAddress"
  ELSE IF GlobalState_unpack_fails(gs) THEN "InvalidAccountData"
  ELSE IF state_not_initialized(gs) THEN "NotInitializedState"
  ELSE IF a.token_program # SplToken THEN "IncorrectTokenProgramId"
  ELSE IF reserve_owner_mismatch(a.authority, token_a) THEN "InvalidOwner"
  ELSE IF reserve_owner_mismatch(a.authority, token_b) THEN "InvalidOwner"
  ELSE IF a.authority = destination.owner THEN "InvalidOutputOwner"
  ELSE IF a.authority # pool_mint.mint_authority THEN "InvalidOwner"
  ELSE IF repeated_mint(token_a, token_b) THEN "RepeatedMint"
  ELSE IF ~validate_curve(a.swap_curve) THEN "UnsupportedCurveType"
  ELSE IF ~calculator_validate(a.swap_curve) THEN "InvalidCurve"
  ELSE IF ~validate_supply(am[a.token_a], am[a.token_b]) THEN "EmptySupply"
  ELSE IF token_a.delegate THEN "InvalidDelegate"
  ELSE IF token_b.delegate THEN "InvalidDelegate"
  ELSE IF token_a.close_authority THEN "InvalidCloseAuthority"
  ELSE IF token_b.close_authority THEN "InvalidCloseAuthority"
  ELSE IF token_a.frozen THEN "InvalidFreezeAuthority"
  ELSE IF token_b.frozen THEN "InvalidFreezeAuthority"
  ELSE IF su[a.pool_mint] # 0 THEN "InvalidSupply"
  ELSE IF pool_mint.freeze_authority THEN "InvalidFreezeAuthority"
  ELSE IF decimals_mismatch(pool_mint, gs) THEN "MismatchDecimalValidation"
  ELSE "Ok"

\* What process_initialize returns and the accounts it leaves.
initialize(gs, si, am, su, a) ==
  LET checked == initialize_checks(gs, si, am, su, a)
      same    == [result |-> checked, si |-> si, amount |-> am, supply |-> su, effects |-> <<>>]
      n       == initial_amount(gs)
      minted  == [same EXCEPT !.amount = [am EXCEPT ![a.destination] = @ + n],
                              !.supply = [su EXCEPT ![a.pool_mint] = @ + n],
                              !.effects = <<Effect("mint_to", a.pool_mint, a.destination, n)>>]
  IN
  IF checked # "Ok" THEN same
  ELSE IF mint_to_fails(a.pool_mint, a.destination) THEN [same EXCEPT !.result = "MintMismatch"]
  \* the mint has been issued; the second validate and the pack follow it
  ELSE IF ~calculator_validate(a.swap_curve) THEN [minted EXCEPT !.result = "InvalidCurve"]
  ELSE IF SwapVersion_pack_fails(si) THEN [minted EXCEPT !.result = "InvalidAccountData"]
  ELSE [minted EXCEPT !.result = "Ok", !.si = new_swap_info(si, a),
                      !.effects = @ \o <<Effect("pack", "swap_info", "swap_info", 0)>>]

Curve(t, ok) == [curve_type |-> t, params_ok |-> ok]

InitializeRequest(c) ==
  [ authority |-> PoolAuthority, gs_pda_ok |-> TRUE, token_program |-> SplToken,
    token_a |-> "resA", token_b |-> "resB", pool_mint |-> "LP6",
    destination |-> "userLP", swap_curve |-> c ]

\* The well-formed request, and requests that differ from it in one account
\* (or in the pair of reserves) or in the curve.  The pools of the model are
\* of the constant-product family: the pricing of the stable family is not
\* part of the modelled code.
InitializeArgs ==
  LET g0 == InitializeRequest(Curve("ConstantProduct", TRUE))
  IN {g0}
     \cup { [g0 EXCEPT !.authority = "alice"], [g0 EXCEPT !.gs_pda_ok = FALSE],
            [g0 EXCEPT !.token_program = "other_program"] }
     \cup { [g0 EXCEPT !.token_a = x] : x \in {"userA", "resB"} }
     \cup { [g0 EXCEPT !.token_b = x] :
              x \in {"userB", "resDeleg", "resClose", "resFrozen", "resEmpty", "resX2"} }
     \cup { [g0 EXCEPT !.token_a = x, !.token_b = "resA"] :
              x \in {"resB", "resDeleg", "resClose", "resFrozen", "resEmpty"} }
     \cup { [g0 EXCEPT !.destination = x] : x \in {"authLP", "userA"} }
     \cup { [g0 EXCEPT !.pool_mint = x] : x \in {"LP9", "LPFreeze", "LPForeign"} }
     \cup { [g0 EXCEPT !.pool_mint = "LP9", !.destination = "userLP9"] }
     \cup { [g0 EXCEPT !.swap_curve = c] :
              c \in {Curve("Offset", TRUE), Curve("ConstantProduct", FALSE), Curve("Stable", FALSE)} }

process_initialize ==
  \E a \in InitializeArgs :
    LET out == initialize(globalState, swapInfo, amount, supply, a)
    IN /\ swapInfo' = out.si
       /\ amount' = out.amount
       /\ supply' = out.supply
       /\ last' = [NoOp EXCEPT !.op = "Initialize", !.result = out.result,
                               !.effects = out.effects,
                               !.was_initialized = globalState.is_initialized,
                               !.request = Kept(out.result, a)]
       /\ UNCHANGED <<globalState, trades, call>>

\* ------------------------------------------------------------ Swap

\* SwapVersion::unpack fails on a Pool Record that is not initialized.
SwapVersion_unpack_fails(si) == ~(si.data_len_ok /\ si.is_initialized)

fee_owner_mismatch_mut(gs, fee_account) == FALSE

fee_owner_mismatch_owner_mut(gs, fee_account) == TokenAccountShape[fee_account].owner # gs.owner

\* The check "fee_token_account.owner != *state.fee_owner()".
fee_owner_mismatch(gs, fee_account) == TokenAccountShape[fee_account].owner # gs.fee_owner

swap_reserves_check_mut(si, a) ==
  IF ~(a.swap_source = si.token_a \/ a.swap_source = si.token_b) THEN "IncorrectSwapAccount"
  ELSE IF ~(a.swap_destination = si.token_a \/ a.swap_destination = si.token_b)
    THEN "IncorrectSwapAccount"
  ELSE IF a.swap_source = a.swap_destination THEN "InvalidInput"
  ELSE IF a.swap_destination = a.destination THEN "InvalidInput"
  ELSE "Ok"

\* The five checks of process_swap on the two reserve accounts of a request.
swap_reserves_check(si, a) ==
  IF ~(a.swap_source = si.token_a \/ a.swap_source = si.token_b) THEN "IncorrectSwapAccount"
  ELSE IF ~(a.swap_destination = si.token_a \/ a.swap_destination = si.token_b)
    THEN "IncorrectSwapAccount"
  ELSE IF a.swap_source = a.swap_destination THEN "InvalidInput"
  ELSE IF a.swap_source = a.source THEN "InvalidInput"
  ELSE IF a.swap_destination = a.destination THEN "InvalidInput"
  ELSE "Ok"

\* The checks of process_swap up to the quote, in source order.
swap_checks(gs, si, a) ==
  IF ~a.swap_owner_ok THEN "IncorrectProgramId"
  ELSE IF ~a.gs_pda_ok THEN "InvalidProgramAddress"
  ELSE IF GlobalState_unpack_fails(gs) THEN "InvalidAccountData"
  ELSE IF state_not_initialized(gs) THEN "NotInitializedState"
  ELSE IF SwapVersion_unpack_fails(si) THEN "UninitializedAccount"
  ELSE IF a.authority # PoolAuthority THEN "InvalidProgramAddress"
  ELSE IF si.token_program_id # SplToken THEN "IncorrectTokenProgramId"
  ELSE IF fee_owner_mismatch(gs, a.fee_account) THEN "InvalidOwner"
  ELSE IF swap_reserves_check(si, a) # "Ok" THEN swap_reserves_check(si, a)
  ELSE IF a.pool_mint # si.pool_mint THEN "IncorrectPoolMint"
  ELSE IF a.token_program # si.token_program_id THEN "IncorrectTokenProgramId"
  ELSE "Ok"

trade_direction(si, a) == IF a.swap_source = si.token_a THEN "AtoB" ELSE "BtoA"

swap_transfers_mut(a, result) ==
  << Effect("transfer", a.source, a.swap_source, result.source_amount_swapped),
     Effect("transfer", a.source, a.fee_account, result.owner_fee),
     Effect("transfer", a.swap_destination, a.destination,
            result.destination_amount_swapped) >>

\* The three transfers of a swap, in the order the handler issues them.
swap_transfers(a, result) ==
  << Effect("transfer", a.source, a.swap_source,
            result.source_amount_swapped - result.owner_fee),
     Effect("transfer", a.source, a.fee_account, result.owner_fee),
     Effect("transfer", a.swap_destination, a.destination,
            result.destination_amount_swapped) >>

swap_quote_none_mut(same) == [same EXCEPT !.result = "Ok"]

\* ".ok_or(SwapError::ZeroTradingTokens)?" on the quote of the curve.
swap_quote_none(same) == [same EXCEPT !.result = "ZeroTradingTokens"]

exceeded_slippage_mut(result, minimum_amount_out) == FALSE

\* The check "result.destination_amount_swapped < minimum_amount_out".
exceeded_slippage(result, minimum_amount_out) ==
  result.destination_amount_swapped < minimum_amount_out

swap_fees_mut(gs) == MINIMUM_FEES

\* The schedule process_swap hands to the curve: state.fees(), read from
\* the Governance Record when the swap runs.
swap_fees(gs) == gs.fees

\* What process_swap returns and the accounts it leaves.
swap(gs, si, am, su, a) ==
  LET checked == swap_checks(gs, si, a)
      same    == [result |-> checked, amount |-> am, supply |-> su, effects |-> <<>>]
  IN IF checked # "Ok" THEN same
     ELSE LET result == curve_swap(si.swap_curve, a.amount_in, am[a.swap_source],
                                   am[a.swap_destination], swap_fees(gs))
          IN IF result = NoResult THEN swap_quote_none(same)
             ELSE IF exceeded_slippage(result, a.minimum_amount_out)
               THEN [same EXCEPT !.result = "ExceededSlippage"]
             ELSE issue(swap_transfers(a, result), am, su, <<>>)

SwapRequest(dir, amount_in, minimum_amount_out) ==
  [ swap_owner_ok |-> TRUE, gs_pda_ok |-> TRUE, authority |-> PoolAuthority,
    source           |-> IF dir = "AtoB" THEN "userA" ELSE "userB",
    swap_source      |-> IF dir = "AtoB" THEN "resA" ELSE "resB",
    swap_destination |-> IF dir = "AtoB" THEN "resB" ELSE "resA",
    destination      |-> IF dir = "AtoB" THEN "userB" ELSE "userA",
    fee_account      |-> IF dir = "AtoB" THEN "feeA" ELSE "feeB",
    pool_mint |-> "LP6", token_program |-> SplToken,
    amount_in |-> amount_in, minimum_amount_out |-> minimum_amount_out ]

AmountInChoices == {0, 100}
MinimumOutChoices == {0, 95}

SwapArgs ==
  LET good == { SwapRequest(d, i, m) :
                  d \in {"AtoB", "BtoA"}, i \in AmountInChoices, m \in MinimumOutChoices }
      g0   == SwapRequest("AtoB", 100, 0)
  IN good
     \cup { [g0 EXCEPT !.swap_owner_ok = FALSE], [g0 EXCEPT !.gs_pda_ok = FALSE],
            [g0 EXCEPT !.authority = "alice"], [g0 EXCEPT !.fee_account = "userA"],
            [SwapRequest("AtoB", 100, 0) EXCEPT !.fee_account = "resX2"],
            [g0 EXCEPT !.swap_source = "resX2"], [g0 EXCEPT !.swap_destination = "resEmpty"],
            [g0 EXCEPT !.swap_destination = "resA"], [g0 EXCEPT !.source = "resA"],
            [g0 EXCEPT !.destination = "resB"], [g0 EXCEPT !.pool_mint = "LP9"],
            [g0 EXCEPT !.token_program = "other_program"], [g0 EXCEPT !.fee_account = "feeB"] }

\* A pool instruction that moved tokens counts as a trade; the model follows
\* at most MaxTrades of them.
Moved(out) == out.effects # <<>>

process_swap ==
  \E a \in SwapArgs :
    LET out == swap(globalState, swapInfo, amount, supply, a)
    IN /\ (Moved(out) => trades < MaxTrades)
       /\ amount' = out.amount
       /\ supply' = out.supply
       /\ trades' = IF Moved(out) THEN trades + 1 ELSE trades
       /\ last' = [NoOp EXCEPT !.op = "Swap", !.result = out.result, !.effects = out.effects,
                               !.was_initialized = globalState.is_initialized,
                               !.request = Kept(out.result, a)]
       /\ UNCHANGED <<globalState, swapInfo, call>>

\* ------------------------------------------------------------ check_accounts

\* Processor::check_accounts, in source order.
check_accounts(si, a) ==
  IF ~a.swap_owner_ok THEN "IncorrectProgramId"
  ELSE IF a.authority # PoolAuthority THEN "InvalidProgramAddress"
  ELSE IF a.token_a # si.token_a THEN "IncorrectSwapAccount"
  ELSE IF a.token_b # si.token_b THEN "IncorrectSwapAccount"
  ELSE IF a.pool_mint # si.pool_mint THEN "IncorrectPoolMint"
  ELSE IF a.token_program # si.token_program_id THEN "IncorrectTokenProgramId"
  ELSE IF a.token_a = a.user_a THEN "InvalidInput"
  ELSE IF a.token_b = a.user_b THEN "InvalidInput"
  ELSE "Ok"

\* The accounts of a well-formed deposit or withdrawal.
PoolRequest ==
  [ swap_owner_ok |-> TRUE, gs_pda_ok |-> TRUE, authority |-> PoolAuthority,
    token_a |-> "resA", token_b |-> "resB", pool_mint |-> "LP6", token_program |-> SplToken,
    user_a |-> "userA", user_b |-> "userB", user_pool |-> "userLP" ]

\* Requests that differ from a well-formed one in one account.
PoolDefects(g0) ==
  { [g0 EXCEPT !.swap_owner_ok = FALSE], [g0 EXCEPT !.gs_pda_ok = FALSE],
    [g0 EXCEPT !.authority = "alice"], [g0 EXCEPT !.token_a = "resX2"],
    [g0 EXCEPT !.token_b = "resEmpty"], [g0 EXCEPT !.pool_mint = "LP9"],
    [g0 EXCEPT !.token_program = "other_program"], [g0 EXCEPT !.user_a = "resA"],
    [g0 EXCEPT !.user_b = "resB"] }

\* ------------------------------------------------------------ Deposit

\* The checks of process_deposit_all_token_types before the conversion.
deposit_checks(gs, si, a) ==
  IF SwapVersion_unpack_fails(si) THEN "UninitializedAccount"
  ELSE IF ~a.gs_pda_ok THEN "InvalidProgramAddress"
  ELSE IF GlobalState_unpack_fails(gs) THEN "InvalidAccountData"
  ELSE IF state_not_initialized(gs) THEN "NotInitializedState"
  ELSE IF ~allows_deposits(si.swap_curve) THEN "UnsupportedCurveOperation"
  ELSE check_accounts(si, a)

deposit_basis_mut(gs, current_pool_mint_supply, pool_token_amount) ==
  IF current_pool_mint_supply > 0
    THEN <<pool_token_amount, current_pool_mint_supply>>
    ELSE <<pool_token_amount, gs.initial_supply>>

deposit_basis_initial_mut(gs, current_pool_mint_supply, pool_token_amount) ==
  <<gs.initial_supply, gs.initial_supply>>

\* <<pool_token_amount, pool_mint_supply>> of a deposit.
deposit_basis(gs, current_pool_mint_supply, pool_token_amount) ==
  IF current_pool_mint_supply > 0
    THEN <<pool_token_amount, current_pool_mint_supply>>
    ELSE <<gs.initial_supply, gs.initial_supply>>

deposit_round_direction_mut == "Floor"

\* RoundDirection::Ceiling, the direction a deposit passes to the conversion.
deposit_round_direction == "Ceiling"

withdraw_round_direction_mut == "Ceiling"

\* RoundDirection::Floor, the direction a withdrawal passes to the conversion.
withdraw_round_direction == "Floor"

deposit_amount_check_mut(token_amount, maximum_token_amount) == "Ok"

\* The two checks a deposit makes on each side's converted amount, in order.
deposit_amount_check(token_amount, maximum_token_amount) ==
  IF token_amount > maximum_token_amount THEN "ExceededSlippage"
  ELSE IF token_amount = 0 THEN "ZeroTradingTokens"
  ELSE "Ok"

\* The calls of a deposit, in the order the handler issues them.
deposit_calls(a, token_a_amount, token_b_amount, pool_token_amount) ==
  << Effect("transfer", a.user_a, a.token_a, token_a_amount),
     Effect("transfer", a.user_b, a.token_b, token_b_amount),
     Effect("mint_to", a.pool_mint, a.user_pool, pool_token_amount) >>

\* What process_deposit_all_token_types returns and the accounts it leaves.
deposit(gs, si, am, su, a) ==
  LET checked == deposit_checks(gs, si, a)
      same    == [result |-> checked, amount |-> am, supply |-> su, effects |-> <<>>]
  IN IF checked # "Ok" THEN same
     ELSE
       LET basis   == deposit_basis(gs, su[a.pool_mint], a.pool_token_amount)
           results == pool_tokens_to_trading_tokens(basis[1], basis[2], am[a.token_a],
                                                    am[a.token_b], deposit_round_direction)
       IN IF results = NoResult THEN [same EXCEPT !.result = "ZeroTradingTokens"]
          ELSE IF deposit_amount_check(results.token_a_amount, a.maximum_token_a_amount) # "Ok"
            THEN [same EXCEPT !.result = deposit_amount_check(results.token_a_amount,
                                                              a.maximum_token_a_amount)]
          ELSE IF deposit_amount_check(results.token_b_amount, a.maximum_token_b_amount) # "Ok"
            THEN [same EXCEPT !.result = deposit_amount_check(results.token_b_amount,
                                                              a.maximum_token_b_amount)]
          ELSE issue(deposit_calls(a, results.token_a_amount, results.token_b_amount, basis[1]),
                     am, su, <<>>)

DepositRequest(p, ma, mb) ==
  [ f \in DOMAIN PoolRequest \cup {"pool_token_amount", "maximum_token_a_amount",
                                   "maximum_token_b_amount"} |->
      CASE f = "pool_token_amount" -> p
        [] f = "maximum_token_a_amount" -> ma
        [] f = "maximum_token_b_amount" -> mb
        [] OTHER -> PoolRequest[f] ]

DepositArgs ==
  LET good == { DepositRequest(p, m[1], m[2]) :
                  p \in {0, 30001}, m \in {<<1000, 1000>>, <<100, 1000>>, <<1000, 100>>} }
  IN good \cup PoolDefects(DepositRequest(30001, 1000, 1000))

process_deposit_all_token_types ==
  \E a \in DepositArgs :
    LET out == deposit(globalState, swapInfo, amount, supply, a)
    IN /\ (Moved(out) => trades < MaxTrades)
       /\ amount' = out.amount
       /\ supply' = out.supply
       /\ trades' = IF Moved(out) THEN trades + 1 ELSE trades
       /\ last' = [NoOp EXCEPT !.op = "Deposit", !.result = out.result, !.effects = out.effects,
                               !.was_initialized = globalState.is_initialized,
                               !.requested = a.pool_token_amount,
                               !.request = Kept(out.result, a)]
       /\ UNCHANGED <<globalState, swapInfo, call>>

\* ------------------------------------------------------------ Withdraw

\* The checks of process_withdraw_all_token_types before the conversion.
withdraw_checks(gs, si, a) ==
  IF SwapVersion_unpack_fails(si) THEN "UninitializedAccount"
  ELSE IF ~a.gs_pda_ok THEN "InvalidProgramAddress"
  ELSE IF GlobalState_unpack_fails(gs) THEN "InvalidAccountData"
  ELSE IF state_not_initialized(gs) THEN "NotInitializedState"
  ELSE check_accounts(si, a)

max_pool_token_amount_mut(pool_mint_supply) ==
  IF pool_mint_supply < MIN_LP_SUPPLY THEN None ELSE pool_mint_supply

max_pool_token_amount_saturating_mut(pool_mint_supply) ==
  IF pool_mint_supply < MIN_LP_SUPPLY THEN 0 ELSE pool_mint_supply - MIN_LP_SUPPLY

\* to_u128(pool_mint.supply)?.checked_sub(MIN_LP_SUPPLY): None when the
\* supply is below the floor.
max_pool_token_amount(pool_mint_supply) ==
  IF pool_mint_supply < MIN_LP_SUPPLY THEN None ELSE pool_mint_supply - MIN_LP_SUPPLY

burned_amount_mut(pool_token_amount, max_amount) == pool_token_amount

\* std::cmp::min(pool_token_amount, max_pool_token_amount): the amount burned.
burned_amount(pool_token_amount, max_amount) == Min(pool_token_amount, max_amount)

withdraw_amount_check_mut(token_amount, minimum_token_amount, reserve_amount) == "Ok"

\* The two checks a withdrawal makes on each side's converted amount, in order.
withdraw_amount_check(token_amount, minimum_token_amount, reserve_amount) ==
  IF token_amount < minimum_token_amount THEN "ExceededSlippage"
  ELSE IF token_amount = 0 /\ reserve_amount # 0 THEN "ZeroTradingTokens"
  ELSE "Ok"

withdraw_calls_mut(a, pool_token_amount, token_a_amount, token_b_amount) ==
  (IF token_a_amount > 0
     THEN << Effect("transfer", a.token_a, a.user_a, token_a_amount) >> ELSE <<>>)
  \o (IF token_b_amount > 0
        THEN << Effect("transfer", a.token_b, a.user_b, token_b_amount) >> ELSE <<>>)
  \o << Effect("burn", a.user_pool, a.pool_mint, pool_token_amount) >>

\* The calls of a withdrawal, in the order the handler issues them.
withdraw_calls(a, pool_token_amount, token_a_amount, token_b_amount) ==
  << Effect("burn", a.user_pool, a.pool_mint, pool_token_amount) >>
  \o (IF token_a_amount > 0
        THEN << Effect("transfer", a.token_a, a.user_a, token_a_amount) >> ELSE <<>>)
  \o (IF token_b_amount > 0
        THEN << Effect("transfer", a.token_b, a.user_b, token_b_amount) >> ELSE <<>>)

\* What process_withdraw_all_token_types returns and the accounts it leaves.
withdraw(gs, si, am, su, a) ==
  LET checked == withdraw_checks(gs, si, a)
      same    == [result |-> checked, amount |-> am, supply |-> su, effects |-> <<>>]
  IN IF checked # "Ok" THEN same
     ELSE
       LET max_amount == max_pool_token_amount(su[a.pool_mint])
       IN IF max_amount = None THEN [same EXCEPT !.result = "CalculationFailure"]
          ELSE
            LET pool_token_amount == burned_amount(a.pool_token_amount, max_amount)
                results == pool_tokens_to_trading_tokens(pool_token_amount, su[a.pool_mint],
                                                         am[a.token_a], am[a.token_b],
                                                         withdraw_round_direction)
            IN IF results = NoResult THEN [same EXCEPT !.result = "ZeroTradingTokens"]
               ELSE
                 LET token_a_amount == Min(am[a.token_a], results.token_a_amount)
                     token_b_amount == Min(am[a.token_b], results.token_b_amount)
                     check_a == withdraw_amount_check(token_a_amount, a.minimum_token_a_amount,
                                                      am[a.token_a])
                     check_b == withdraw_amount_check(token_b_amount, a.minimum_token_b_amount,
                                                      am[a.token_b])
                 IN IF check_a # "Ok" THEN [same EXCEPT !.result = check_a]
                    ELSE IF check_b # "Ok" THEN [same EXCEPT !.result = check_b]
                    ELSE issue(withdraw_calls(a, pool_token_amount, token_a_amount,
                                              token_b_amount), am, su, <<>>)

WithdrawRequest(p, ma, mb) ==
  [ f \in DOMAIN PoolRequest \cup {"pool_token_amount", "minimum_token_a_amount",
                                   "minimum_token_b_amount"} |->
      CASE f = "pool_token_amount" -> p
        [] f = "minimum_token_a_amount" -> ma
        [] f = "minimum_token_b_amount" -> mb
        [] OTHER -> PoolRequest[f] ]

\* A withdrawal asks for a fixed amount or for the whole current supply.
WithdrawArgs(su) ==
  LET good == { WithdrawRequest(p, m[1], m[2]) :
                  p \in {0, 30001, su["LP6"]}, m \in {<<0, 0>>, <<600, 0>>, <<0, 600>>} }
  IN good \cup PoolDefects(WithdrawRequest(30001, 0, 0))

process_withdraw_all_token_types ==
  \E a \in WithdrawArgs(supply) :
    LET out == withdraw(globalState, swapInfo, amount, supply, a)
    IN /\ (Moved(out) => trades < MaxTrades)
       /\ amount' = out.amount
       /\ supply' = out.supply
       /\ trades' = IF Moved(out) THEN trades + 1 ELSE trades
       /\ last' = [NoOp EXCEPT !.op = "Withdraw", !.result = out.result, !.effects = out.effects,
                               !.was_initialized = globalState.is_initialized,
                               !.requested = a.pool_token_amount,
                               !.request = Kept(out.result, a)]
       /\ UNCHANGED <<globalState, swapInfo, call>>

Next ==
  \/ process_set_global_state
  \/ process_initialize
  \/ process_swap
  \/ process_deposit_all_token_types
  \/ process_withdraw_all_token_types

Spec == Init /\ [][Next]_vars

\* ------------------------------------------------------------ fees.rs and constraints.rs on their own

\* The functions of curve/fees.rs and constraints.rs take no account and
\* leave none changed.  FeeSpec evaluates them, one call per step, on
\* arguments drawn from the sets below; the accounts stay as constructed.

\* Amounts around zero, around the one-token minimum, and around the point
\* where the product with a small numerator stops fitting.
FeeAmounts == {0, 1, 2, 3, 399, 400, 10000, 8388607, 8388608, 16777215}

FeeNumerators == {0, 1, 2, 25, 127}

FeeDenominators == {0, 1, 2, 10000}

\* Every schedule over small fields: the all-zero one, zero denominators
\* with nonzero numerators, numerators at, below and above the denominator,
\* and sums of a family's two numerators at, below and above it.
SmallFees ==
  { MkFees(<<r1, f1, r2, f2, d>>) : r1 \in 0..2, f1 \in 0..2, r2 \in 0..2, f2 \in 0..2, d \in 0..3 }

\* Floors a SwapConstraints value may carry, the program's own included.
FloorChoices ==
  { MINIMUM_FEES, MkFees(<<1, 1, 1, 1, 3>>), MkFees(<<0, 2, 1, 0, 2>>) }

ProposedFees ==
  { MkFees(<<r1, f1, r2, f2, d>>) :
      r1 \in 0..2, f1 \in 0..2, r2 \in 0..1, f2 \in 0..1, d \in {2, 3, 10000} }

\* Schedules and amounts for the two fees of one trade.
TradeFees ==
  FeeChoices \cup { MkFees(<<1, 1, 0, 1, 3>>), MkFees(<<5000, 4999, 1, 0, 10000>>),
                    MkFees(<<0, 9999, 9999, 0, 10000>>), MkFees(<<3, 0, 0, 0, 2>>) }

TradeAmounts == {0, 1, 2, 3, 4, 200, 399, 400, 1000, 1677, 3356, 16777215}

CurveChoices ==
  { [curve_type |-> t, params_ok |-> TRUE] : t \in {"ConstantProduct", "Stable", "Offset"} }

FeeInit ==
  /\ globalState = ZeroGlobalState(TRUE)
  /\ swapInfo = ZeroSwapInfo(TRUE)
  /\ amount = InitialAmount
  /\ supply = [m \in Mints |-> 0]
  /\ trades = 0
  /\ last = NoOp
  /\ call = NoCall

eval_calculate_fee ==
  \E token_amount \in FeeAmounts, fee_numerator \in FeeNumerators,
     fee_denominator \in FeeDenominators :
    /\ call' = [fn |-> "calculate_fee",
                args |-> <<token_amount, fee_numerator, fee_denominator>>,
                ret |-> calculate_fee(token_amount, fee_numerator, fee_denominator)]
    /\ UNCHANGED <<globalState, swapInfo, amount, supply, trades, last>>

\* Fees::validate, then Fees::validate again on the same value.
eval_Fees_validate ==
  \E f \in SmallFees \cup FeeChoices :
    /\ call' = [fn |-> "Fees::validate", args |-> <<f>>,
                ret |-> <<Fees_validate(f), Fees_validate(f)>>]
    /\ UNCHANGED <<globalState, swapInfo, amount, supply, trades, last>>

eval_validate_fees ==
  \E floor \in FloorChoices, fees \in ProposedFees :
    /\ call' = [fn |-> "SwapConstraints::validate_fees", args |-> <<floor, fees>>,
                ret |-> SwapConstraints_validate_fees(
                          [valid_curve_types |-> VALID_CURVE_TYPES, fees |-> floor], fees)]
    /\ UNCHANGED <<globalState, swapInfo, amount, supply, trades, last>>

\* Fees::return_fee and Fees::fixed_fee of one trade.
eval_trade_fees ==
  \E f \in TradeFees, trading_tokens \in TradeAmounts, swap_curve \in CurveChoices :
    /\ call' = [fn |-> "Fees::return_fee+fixed_fee", args |-> <<f, trading_tokens, swap_curve>>,
                ret |-> <<return_fee(f, trading_tokens, swap_curve),
                          fixed_fee(f, trading_tokens, swap_curve)>>]
    /\ UNCHANGED <<globalState, swapInfo, amount, supply, trades, last>>

FeeNext ==
  \/ eval_calculate_fee
  \/ eval_Fees_validate
  \/ eval_validate_fees
  \/ eval_trade_fees

FeeSpec == FeeInit /\ [][FeeNext]_vars

\* ------------------------------------------------------------ liquidity

\* Deposits and withdrawals that follow one another on one pool.
\* LiquiditySpec runs the same handlers from the state after construction,
\* on well-formed governance and pool-creation requests, so that several
\* liquidity instructions of one behaviour can be followed.

\* Largest number of Deposit and Withdraw instructions of one behaviour of
\* LiquiditySpec that move tokens.
MaxLiquidityOps == 2

\* Initial supplies a governance update may configure: none, one below
\* MIN_LP_SUPPLY, and two above it.
LiquiditySupplies == {0, 70000, 200000, 300000}

\* Pool-share amounts a deposit or a withdrawal may ask for.
LiquidityShares == {30001, 180000}

LiquidityInit ==
  /\ globalState = ZeroGlobalState(TRUE)
  /\ swapInfo = ZeroSwapInfo(TRUE)
  /\ amount = InitialAmount
  /\ supply = [m \in Mints |-> 0]
  /\ trades = 0
  /\ last = NoOp
  /\ call = NoCall

\* process_set_global_state, submitted by the owner.
liquidity_set_global_state ==
  \E k \in LiquiditySupplies :
    LET a   == SetGlobalStateRequest(INITIAL_PROGRAM_OWNER, INITIAL_PROGRAM_OWNER,
                                     <<k, 6, "bob", MkFees(<<0, 0, 0, 0, 10000>>)>>)
        out == set_global_state(globalState, a)
    IN /\ globalState' = out.gs
       /\ last' = [NoOp EXCEPT !.op = "SetGlobalState", !.result = out.result,
                               !.effects = out.effects, !.caller = a.caller,
                               !.is_signer = a.is_signer,
                               !.was_initialized = globalState.is_initialized,
                               !.request = Kept(out.result, a)]
       /\ UNCHANGED <<swapInfo, amount, supply, trades, call>>

\* process_initialize of a constant-product pool over resA and resB.
liquidity_initialize ==
  LET a   == InitializeRequest(Curve("ConstantProduct", TRUE))
      out == initialize(globalState, swapInfo, amount, supply, a)
  IN /\ swapInfo' = out.si
     /\ amount' = out.amount
     /\ supply' = out.supply
     /\ last' = [NoOp EXCEPT !.op = "Initialize", !.result = out.result,
                             !.effects = out.effects,
                             !.was_initialized = globalState.is_initialized,
                             !.request = Kept(out.result, a)]
     /\ UNCHANGED <<globalState, trades, call>>

LiquidityDepositArgs == { DepositRequest(p, 1000, 1000) : p \in LiquidityShares }

\* process_deposit_all_token_types
liquidity_deposit ==
  \E a \in LiquidityDepositArgs :
    LET out == deposit(globalState, swapInfo, amount, supply, a)
    IN /\ (Moved(out) => trades < MaxLiquidityOps)
       /\ amount' = out.amount
       /\ supply' = out.supply
       /\ trades' = IF Moved(out) THEN trades + 1 ELSE trades
       /\ last' = [NoOp EXCEPT !.op = "Deposit", !.result = out.result, !.effects = out.effects,
                               !.was_initialized = globalState.is_initialized,
                               !.requested = a.pool_token_amount,
                               !.request = Kept(out.result, a)]
       /\ UNCHANGED <<globalState, swapInfo, call>>

LiquidityWithdrawArgs ==
  { WithdrawRequest(p, 0, 0) : p \in LiquidityShares }
  \cup PoolDefects(WithdrawRequest(30001, 0, 0))

\* process_withdraw_all_token_types
liquidity_withdraw ==
  \E a \in LiquidityWithdrawArgs :
    LET out == withdraw(globalState, swapInfo, amount, supply, a)
    IN /\ (Moved(out) => trades < MaxLiquidityOps)
       /\ amount' = out.amount
       /\ supply' = out.supply
       /\ trades' = IF Moved(out) THEN trades + 1 ELSE trades
       /\ last' = [NoOp EXCEPT !.op = "Withdraw", !.result = out.result, !.effects = out.effects,
                               !.was_initialized = globalState.is_initialized,
                               !.requested = a.pool_token_amount,
                               !.request = Kept(out.result, a)]
       /\ UNCHANGED <<globalState, swapInfo, call>>

LiquidityNext ==
  \/ liquidity_set_global_state
  \/ liquidity_initialize
  \/ liquidity_deposit
  \/ liquidity_withdraw

LiquiditySpec == LiquidityInit /\ [][LiquidityNext]_vars

\* ------------------------------------------------------------ properties

PoolOps == {"Initialize", "Swap", "Deposit", "Withdraw"}

Succeeded(op) == last.op = op /\ last.result = "Ok"

\* C1: after every successful WithdrawAllTokenTypes the pool-share supply is
\* at least MIN_LP_SUPPLY, whatever amount was requested, the whole current
\* supply included.
C1_WithdrawKeepsFloor ==
  Succeeded("Withdraw") => supply[swapInfo.pool_mint] >= MIN_LP_SUPPLY

\* A withdrawal that asked for the whole supply succeeded and burned only
\* down to the floor.
C1_Witness ==
  /\ Succeeded("Withdraw")
  /\ last.effects[1].kind = "burn"
  /\ last.requested = supply[swapInfo.pool_mint] + last.effects[1].amt
  /\ last.effects[1].amt < last.requested
  /\ supply[swapInfo.pool_mint] = MIN_LP_SUPPLY

\* C2: a SetGlobalState on an initialized Governance Record succeeds only if
\* the caller signed and is the record's current owner; the stored owner
\* changes only in a successful update submitted by the owner it replaces,
\* so a replaced owner's later updates are rejected.
C2_OnlyOwnerUpdates ==
  [][ globalState.is_initialized =>
        /\ (last'.op = "SetGlobalState" /\ last'.result = "Ok"
              => last'.is_signer /\ last'.caller = globalState.owner)
        /\ (globalState'.owner # globalState.owner
              => /\ last'.op = "SetGlobalState" /\ last'.result = "Ok"
                 /\ last'.is_signer /\ last'.caller = globalState.owner)
        /\ (last'.op = "SetGlobalState" /\ last'.is_signer
            /\ last'.caller # globalState.owner
            /\ last'.result \notin {"InvalidProgramAddress", "InvalidSystemProgramId",
                                    "InvalidRentSysvarId"}
              => last'.result = "InvalidProgramOwner" /\ globalState' = globalState) ]_vars

\* The owner of an initialized record handed the record over: the update
\* succeeded and the stored owner is no longer the caller.
C2_Witness ==
  /\ Succeeded("SetGlobalState")
  /\ last.was_initialized
  /\ globalState.owner # last.caller

\* The errors of the account checks that precede the decoding of the
\* Governance Record in process_set_global_state, and the failure of the
\* allocation.
SetGlobalStateAccountErrors ==
  {"InvalidProgramAddress", "InvalidSigner", "InvalidSystemProgramId",
   "InvalidRentSysvarId", "SystemTransferFailed"}

\* C3: on an uninitialized Governance Record the handler adopts the
\* bootstrap owner before it checks the owner: the first update succeeds
\* only for the bootstrap principal, who always passes the owner check, and
\* any other signer whose accounts pass is rejected with InvalidProgramOwner,
\* whatever owner and fees the request carries.
C3_BootstrapOwnerFirst ==
  (last.op = "SetGlobalState" /\ ~last.was_initialized) =>
    /\ (last.result = "Ok" => last.is_signer /\ last.caller = INITIAL_PROGRAM_OWNER)
    /\ (last.caller # INITIAL_PROGRAM_OWNER
        /\ last.result \notin SetGlobalStateAccountErrors
          => last.result = "InvalidProgramOwner" /\ ~globalState.is_initialized)
    /\ (last.caller = INITIAL_PROGRAM_OWNER
        /\ last.result \notin SetGlobalStateAccountErrors
          => last.result \in {"Ok", "InvalidFee"})

\* A signer other than the bootstrap principal tried the first update and
\* was rejected at the owner check.
C3_Witness ==
  /\ last.op = "SetGlobalState" /\ ~last.was_initialized
  /\ last.is_signer /\ last.caller # INITIAL_PROGRAM_OWNER
  /\ last.result = "InvalidProgramOwner"

\* C4: a rejected SetGlobalState leaves the Governance Record as it was: a
\* stored record keeps every field and a record that did not exist still
\* does not exist, its storage not allocated.
C4_RejectedLeavesRecord ==
  [][ (last'.op = "SetGlobalState" /\ last'.result # "Ok")
        => globalState' = globalState ]_vars

\* C5: in every reachable state with an initialized Governance Record the
\* stored fee schedule passes validate_fees against the minimum schedule and
\* passes Fees::validate: the denominator is the mandated 10000 (so never
\* 0), no numerator is below its floor, every numerator is below the
\* denominator and each fixed numerator is below the denominator minus the
\* return numerator of its family.
C5_StoredFeesValid ==
  globalState.is_initialized =>
    LET f == globalState.fees
        m == MINIMUM_FEES
    IN /\ f.fee_denominator = m.fee_denominator
       /\ f.fee_denominator # 0
       /\ f.constant_product_return_fee_numerator >= m.constant_product_return_fee_numerator
       /\ f.constant_product_fixed_fee_numerator >= m.constant_product_fixed_fee_numerator
       /\ f.stable_return_fee_numerator >= m.stable_return_fee_numerator
       /\ f.stable_fixed_fee_numerator >= m.stable_fixed_fee_numerator
       /\ f.constant_product_return_fee_numerator < f.fee_denominator
       /\ f.constant_product_fixed_fee_numerator < f.fee_denominator
       /\ f.stable_return_fee_numerator < f.fee_denominator
       /\ f.stable_fixed_fee_numerator < f.fee_denominator
       /\ f.constant_product_fixed_fee_numerator
            < f.fee_denominator - f.constant_product_return_fee_numerator
       /\ f.stable_fixed_fee_numerator
            < f.fee_denominator - f.stable_return_fee_numerator

\* A schedule with non-zero numerators replaced the schedule of a record
\* that was already initialized.
C5_Witness ==
  /\ Succeeded("SetGlobalState")
  /\ last.was_initialized
  /\ globalState.fees.constant_product_return_fee_numerator = 25
  /\ globalState.fees.stable_fixed_fee_numerator = 1

\* C6: Initialize on a Pool Record that is already initialized is rejected
\* with AlreadyInUse, mints nothing and leaves the Pool Record, the balances
\* and the supplies unchanged, so Initialize succeeds at most once per pool.
C6_InitializeOnce ==
  [][ (swapInfo.is_initialized /\ last'.op = "Initialize")
        => /\ last'.result = "AlreadyInUse"
           /\ last'.effects = <<>>
           /\ swapInfo' = swapInfo
           /\ amount' = amount
           /\ supply' = supply ]_vars

\* A second Initialize was tried on an initialized pool.
C6_Witness ==
  /\ last.op = "Initialize"
  /\ last.result = "AlreadyInUse"
  /\ swapInfo.is_initialized

C8_InitializeMintsAndPersists ==
  Succeeded("Initialize") =>
    LET a == last.request
    IN /\ last.effects =
            << Effect("mint_to", a.pool_mint, a.destination, globalState.initial_supply),
               Effect("pack", "swap_info", "swap_info", 0) >>
       /\ supply[a.pool_mint] = globalState.initial_supply
       /\ amount[a.destination] = globalState.initial_supply
       /\ swapInfo.is_initialized
       /\ swapInfo.nonce = PoolNonce
       /\ swapInfo.token_program_id = a.token_program
       /\ swapInfo.token_a = a.token_a
       /\ swapInfo.token_b = a.token_b
       /\ swapInfo.pool_mint = a.pool_mint
       /\ swapInfo.token_a_mint = TokenAccountShape[a.token_a].mint
       /\ swapInfo.token_b_mint = TokenAccountShape[a.token_b].mint
       /\ swapInfo.swap_curve = a.swap_curve

\* A pool was initialized under a configured initial supply other than
\* MIN_LP_SUPPLY.
C8_Witness ==
  /\ Succeeded("Initialize")
  /\ globalState.initial_supply # MIN_LP_SUPPLY
  /\ supply[swapInfo.pool_mint] = globalState.initial_supply

\* C9: an Initialize that fails has minted no pool-share token and leaves
\* the Pool Record uninitialized: nothing that can fail runs after the mint.
C9_FailedInitializeMintsNothing ==
  (last.op = "Initialize" /\ last.result # "Ok") =>
    /\ last.effects = <<>>
    /\ (last.result # "AlreadyInUse" => supply = [m \in Mints |-> 0])

\* C10 as stated: in every reachable state the decimals of an initialized
\* pool's pool-share mint equal the precision configured in the Governance
\* Record, also after later SetGlobalState updates.
C10_DecimalsAlwaysEqual ==
  swapInfo.is_initialized =>
    MintShape[swapInfo.pool_mint].decimals = globalState.lp_decimals

\* C10: when Initialize succeeds the decimals of the pool-share mint equal
\* the precision the Governance Record configures at that moment; a later
\* SetGlobalState may configure another precision, and the pool keeps its
\* mint.
C10_DecimalsAtInitialize ==
  Succeeded("Initialize") =>
    MintShape[swapInfo.pool_mint].decimals = globalState.lp_decimals

\* A pool was initialized on the 9-decimals mint under a Governance Record
\* that configures 9 decimals.
C10_Witness ==
  /\ Succeeded("Initialize")
  /\ swapInfo.pool_mint = "LP9"
  /\ globalState.lp_decimals = 9

\* The fee of a constant-product numerator n over the denominator d on the
\* amount x, written out: zero for a zero numerator or amount, otherwise
\* the quotient rounded down but at least one token.
FeeOn(x, n, d) ==
  IF n = 0 \/ x = 0 THEN 0
  ELSE IF (x * n) \div d = 0 THEN 1 ELSE (x * n) \div d

\* C11 as stated: once a pool is initialized the fee schedule applied to its
\* swaps is the same at every later moment, whatever SetGlobalState does.
C11_FeesFixedPerPool ==
  [][ swapInfo.is_initialized => globalState'.fees = globalState.fees ]_vars

\* C11: a swap applies the fee schedule stored in the Governance Record at
\* the moment of the swap: the owner fee transferred and the amount delivered
\* are those of the stored numerators on the amount offered, also when a
\* SetGlobalState after the pool's Initialize stored the schedule.
C11_SwapAppliesStoredFees ==
  Succeeded("Swap") =>
    LET a   == last.request
        f   == globalState.fees
        x   == a.amount_in
        ff  == FeeOn(x, f.constant_product_fixed_fee_numerator, f.fee_denominator)
        rf  == FeeOn(x, f.constant_product_return_fee_numerator, f.fee_denominator)
        src == amount[a.swap_source] - last.effects[1].amt
        dst == amount[a.swap_destination] + last.effects[3].amt
        k   == src * dst
        new_dst == (k + (src + x - rf - ff) - 1) \div (src + x - rf - ff)
    IN /\ Len(last.effects) = 3
       /\ last.effects[2].amt = ff
       /\ last.effects[3].amt = dst - new_dst
       /\ last.effects[1].amt + ff = (k + new_dst - 1) \div new_dst - src + rf + ff

\* A swap paid an owner fee under a Governance Record that was updated after
\* the pool had been initialized.
C11_Witness ==
  /\ Succeeded("Swap")
  /\ last.effects[2].amt = 1
  /\ supply[swapInfo.pool_mint] # globalState.initial_supply

\* C12: the two reserve sides of an initialized pool never have the same
\* asset: an Initialize succeeds only on reserve accounts of different
\* mints, the Pool Record of every state reached records two different
\* mints, those of its reserve accounts, and no step changes the recorded
\* mints of an initialized pool.
C12_ReserveMintsDiffer ==
  [][ /\ (last'.op = "Initialize" /\ last'.result = "Ok"
            => TokenAccountShape[last'.request.token_a].mint
                 # TokenAccountShape[last'.request.token_b].mint)
      /\ (swapInfo'.is_initialized
            => /\ swapInfo'.token_a_mint # swapInfo'.token_b_mint
               /\ swapInfo'.token_a_mint = TokenAccountShape[swapInfo'.token_a].mint
               /\ swapInfo'.token_b_mint = TokenAccountShape[swapInfo'.token_b].mint)
      /\ (swapInfo.is_initialized
            => /\ swapInfo'.token_a_mint = swapInfo.token_a_mint
               /\ swapInfo'.token_b_mint = swapInfo.token_b_mint) ]_vars

\* An Initialize on two reserve accounts of the same mint was rejected.
C12_Witness ==
  /\ last.op = "Initialize"
  /\ last.result = "RepeatedMint"
  /\ ~swapInfo.is_initialized

\* C13: an Initialize succeeds only if both reserve accounts are owned by
\* the derived pool authority, the mint authority of the pool-share mint is
\* that authority, the owner of the destination account is not, neither
\* reserve has a delegate, a close authority or a frozen state, and the
\* pool-share mint has no freeze authority and had zero supply (all of its
\* supply is what this Initialize minted).
C13_InitializeAccountShapes ==
  Succeeded("Initialize") =>
    LET a           == last.request
        token_a     == TokenAccountShape[a.token_a]
        token_b     == TokenAccountShape[a.token_b]
        destination == TokenAccountShape[a.destination]
        pool_mint   == MintShape[a.pool_mint]
    IN /\ a.authority = PoolAuthority
       /\ token_a.owner = PoolAuthority
       /\ token_b.owner = PoolAuthority
       /\ pool_mint.mint_authority = PoolAuthority
       /\ destination.owner # PoolAuthority
       /\ ~token_a.delegate /\ ~token_b.delegate
       /\ ~token_a.close_authority /\ ~token_b.close_authority
       /\ ~token_a.frozen /\ ~token_b.frozen
       /\ ~pool_mint.freeze_authority
       /\ last.effects[1].kind = "mint_to"
       /\ supply[a.pool_mint] = last.effects[1].amt

\* The errors with which process_initialize rejects an account of the wrong
\* shape.
InitializeShapeErrors ==
  {"InvalidOwner", "InvalidOutputOwner", "InvalidDelegate", "InvalidCloseAuthority",
   "InvalidFreezeAuthority", "InvalidSupply"}

\* An Initialize under an initialized Governance Record was rejected for the
\* shape of one of its accounts.
C13_Witness ==
  /\ last.op = "Initialize"
  /\ last.was_initialized
  /\ last.result \in InitializeShapeErrors
  /\ last.effects = <<>>

\* The token accounts of the caller of the pool instructions.
CallerAccounts == {"userA", "userB", "userLP", "userLP9"}

\* The token accounts whose balance a step changed, and the mints whose
\* supply it changed.
ChangedAccounts == {x \in TokenAccounts : amount'[x] # amount[x]}

ChangedMints == {m \in Mints : supply'[m] # supply[m]}

\* C14 as stated: no Swap, Deposit or Withdraw, successful or rejected,
\* changes a field of the Pool Record; they change only balances of the
\* pool's reserves, balances of the caller and the supply of the pool-share
\* mint.
C14_OnlyReservesCallerAndSupply ==
  [][ last'.op \in {"Swap", "Deposit", "Withdraw"}
        => /\ swapInfo' = swapInfo
           /\ ChangedAccounts \subseteq {swapInfo.token_a, swapInfo.token_b} \cup CallerAccounts
           /\ ChangedMints \subseteq {swapInfo.pool_mint} ]_vars

\* C14: no Swap, Deposit or Withdraw, successful or rejected, changes a
\* field of the Pool Record; a Deposit or a Withdraw changes only balances of
\* the pool's reserves, balances of the caller and the supply of the
\* pool-share mint, and a Swap only balances of the reserves, of the caller
\* and of a fee account owned by the fee recipient of the Governance Record,
\* and no supply.
C14_PoolRecordFrame ==
  [][ last'.op \in {"Swap", "Deposit", "Withdraw"}
        => /\ swapInfo' = swapInfo
           /\ ChangedAccounts \subseteq
                {swapInfo.token_a, swapInfo.token_b} \cup CallerAccounts
                \cup (IF last'.op = "Swap"
                        THEN {x \in TokenAccounts :
                                TokenAccountShape[x].owner = globalState.fee_owner}
                        ELSE {})
           /\ ChangedMints \subseteq (IF last'.op = "Swap" THEN {} ELSE {swapInfo.pool_mint}) ]_vars

\* A swap on an initialized pool moved tokens of both reserves and paid the
\* fee recipient.
C14_Witness ==
  /\ Succeeded("Swap")
  /\ swapInfo.is_initialized
  /\ amount[swapInfo.token_a] # InitialAmount[swapInfo.token_a]
  /\ amount[swapInfo.token_b] # InitialAmount[swapInfo.token_b]
  /\ amount["feeA"] + amount["feeB"] > 0

\* The fields of the Governance Record, without the state of its storage.
GovernanceFields(gs) ==
  << gs.is_initialized, gs.initial_supply, gs.lp_decimals, gs.owner, gs.fee_owner, gs.fees >>

\* C15: only a successful SetGlobalState writes the Governance Record: an
\* Initialize, Swap, Deposit or Withdraw leaves the record as it was, a
\* field of it changes in no step other than a successful SetGlobalState,
\* which leaves the record initialized, and a record that is initialized is
\* initialized in the next state.
C15_GovernanceWrittenBySetGlobalState ==
  [][ /\ (last'.op \in PoolOps => globalState' = globalState)
      /\ (GovernanceFields(globalState') # GovernanceFields(globalState)
            => last'.op = "SetGlobalState" /\ last'.result = "Ok")
      /\ (last'.op = "SetGlobalState" /\ last'.result = "Ok" => globalState'.is_initialized)
      /\ (globalState.is_initialized => globalState'.is_initialized) ]_vars

\* After a pool was initialized and traded under it, the Governance Record
\* is still the one its owner stored.
C15_Witness ==
  /\ last.op \in {"Swap", "Deposit", "Withdraw"}
  /\ last.result = "Ok"
  /\ trades = 1
  /\ globalState.is_initialized
  /\ globalState.owner = "alice"

\* No numerator of the schedule is positive.
NoFees(f) ==
  /\ f.constant_product_return_fee_numerator = 0
  /\ f.constant_product_fixed_fee_numerator = 0
  /\ f.stable_return_fee_numerator = 0
  /\ f.stable_fixed_fee_numerator = 0

\* C16: a Swap rejected with ExceededSlippage issued no transfer and left
\* every balance and supply as it was, and a Swap that succeeds delivers at
\* least the caller's minimum_amount_out; a swap of 100 into reserves of
\* (1000, 1000) without fees delivers 90, so it does not succeed with a
\* minimum of 95.
C16_SlippageRejectsWithoutTransfer ==
  [][ last'.op = "Swap" =>
        /\ (last'.result = "ExceededSlippage"
              => last'.effects = <<>> /\ amount' = amount /\ supply' = supply)
        /\ (last'.result = "Ok"
              => LET a == last'.request
                 IN /\ last'.effects[3].amt >= a.minimum_amount_out
                    /\ (NoFees(globalState.fees) /\ a.amount_in = 100
                        /\ amount[a.swap_source] = 1000 /\ amount[a.swap_destination] = 1000
                          => last'.effects[3].amt = 90 /\ a.minimum_amount_out # 95)) ]_vars

\* A swap into a pool with reserves of (1000, 1000) and no fees was rejected
\* for slippage.
C16_Witness ==
  /\ last.op = "Swap"
  /\ last.result = "ExceededSlippage"
  /\ swapInfo.is_initialized
  /\ NoFees(globalState.fees)
  /\ amount[swapInfo.token_a] = 1000
  /\ amount[swapInfo.token_b] = 1000

\* The balances with the reserve r emptied.
Emptied(r) == [amount EXCEPT ![r] = 0]

\* The swap requests whose accounts are those of the pool.
WellFormedSwaps ==
  {SwapRequest(d, i, m) : d \in {"AtoB", "BtoA"}, i \in AmountInChoices, m \in MinimumOutChoices}

\* C17: a Swap for which the curve gives no quote is rejected with
\* ZeroTradingTokens and without a transfer, and a Swap that succeeds issued
\* its three transfers, consuming and delivering more than zero; process_swap
\* applied to the pool with either reserve emptied rejects every request
\* that passes the account checks with ZeroTradingTokens and without effect.
C17_NoQuoteIsFailure ==
  /\ (last.op = "Swap" /\ last.result = "ZeroTradingTokens" => last.effects = <<>>)
  /\ (Succeeded("Swap")
        => /\ Len(last.effects) = 3
           /\ last.effects[1].amt + last.effects[2].amt > 0
           /\ last.effects[3].amt > 0)
  /\ (swapInfo.is_initialized /\ swapInfo.pool_mint = "LP6" =>
        \A r \in {swapInfo.token_a, swapInfo.token_b} : \A a \in WellFormedSwaps :
          LET out == swap(globalState, swapInfo, Emptied(r), supply, a)
          IN /\ out.result \in {"ZeroTradingTokens", "InvalidOwner"}
             /\ out.effects = <<>>
             /\ out.amount = Emptied(r)
             /\ (~fee_owner_mismatch(globalState, a.fee_account)
                   => out.result = "ZeroTradingTokens"))

\* A swap on an initialized pool got no quote from the curve and was
\* rejected.
C17_Witness ==
  /\ last.op = "Swap"
  /\ last.result = "ZeroTradingTokens"
  /\ swapInfo.is_initialized
  /\ last.effects = <<>>

\* C18: a successful Deposit takes from the caller, on each side, the
\* pool-share amount's proportion of the reserve rounded up (the amount times
\* the basis supply is at least the pool-share amount times the reserve, and
\* one unit less would not be), and a successful Withdraw pays, on each side,
\* the burned amount's proportion rounded down (the amount times the supply
\* is at most the burned amount times the reserve, and one unit more would
\* exceed it).
C18_RoundingFavoursPool ==
  [][ /\ (last'.op = "Deposit" /\ last'.result = "Ok") =>
           \A r \in {swapInfo.token_a, swapInfo.token_b} :
             LET deposited == amount'[r] - amount[r]
                 minted    == supply'[swapInfo.pool_mint] - supply[swapInfo.pool_mint]
                 basis     == IF supply[swapInfo.pool_mint] > 0
                                THEN supply[swapInfo.pool_mint]
                                ELSE globalState.initial_supply
             IN /\ minted > 0
                /\ deposited * basis >= minted * amount[r]
                /\ (deposited - 1) * basis < minted * amount[r]
      /\ (last'.op = "Withdraw" /\ last'.result = "Ok") =>
           \A r \in {swapInfo.token_a, swapInfo.token_b} :
             LET withdrawn == amount[r] - amount'[r]
                 burned    == supply[swapInfo.pool_mint] - supply'[swapInfo.pool_mint]
                 capped    == Min(last'.requested,
                                  supply[swapInfo.pool_mint] - MIN_LP_SUPPLY)
             IN /\ burned = capped
                /\ withdrawn * supply[swapInfo.pool_mint] <= capped * amount[r]
                /\ (withdrawn + 1) * supply[swapInfo.pool_mint] > capped * amount[r] ]_vars

\* A deposit and a withdrawal whose proportions are not whole numbers: 151
\* taken for 30001 pool shares of 200000 on reserves of 1000, 150 paid back.
C18_Witness ==
  /\ last.result = "Ok"
  /\ \/ /\ last.op = "Deposit"
        /\ last.effects[1].amt = 151
        /\ last.effects[3].amt = 30001
     \/ /\ last.op = "Withdraw"
        /\ last.effects[1].amt = 30001
        /\ last.effects[2].amt = 150

\* C19: a successful Withdraw that asks for more pool shares than the supply
\* holds above the floor burns exactly the supply minus the floor, and
\* leaves the pool-share supply exactly at the floor.
C19_CappedWithdrawLeavesFloor ==
  [][ ( /\ last'.op = "Withdraw"
        /\ last'.result = "Ok"
        /\ last'.requested > supply[swapInfo.pool_mint] - MIN_LP_SUPPLY ) =>
      ( /\ last'.effects[1].kind = "burn"
        /\ last'.effects[1].amt = supply[swapInfo.pool_mint] - MIN_LP_SUPPLY
        /\ supply[swapInfo.pool_mint] - supply'[swapInfo.pool_mint]
             = supply[swapInfo.pool_mint] - MIN_LP_SUPPLY
        /\ supply'[swapInfo.pool_mint] = MIN_LP_SUPPLY ) ]_vars

\* The whole supply of 200000 was asked for and 100000 were burned.
C19_Witness ==
  /\ last.op = "Withdraw"
  /\ last.result = "Ok"
  /\ last.requested = 200000
  /\ last.effects[1].amt = 100000
  /\ supply[swapInfo.pool_mint] = MIN_LP_SUPPLY

\* C20: a Deposit whose converted amount on either side is zero is rejected
\* with ZeroTradingTokens, one whose converted amount on either side exceeds
\* the caller's maximum for that side is rejected with ExceededSlippage, in
\* both cases before any transfer or mint; a successful Deposit transfers on
\* each side a nonzero amount that is at most the caller's maximum.  (With a
\* zero supply and a zero configured initial supply there is no conversion
\* at all, and the Deposit is rejected with ZeroTradingTokens.)
C20_DepositAmountsChecked ==
  /\ (last.op = "Deposit" /\ last.result \in {"ZeroTradingTokens", "ExceededSlippage"}) =>
       last.effects = <<>>
  /\ Succeeded("Deposit") =>
       /\ Len(last.effects) = 3
       /\ last.effects[1].kind = "transfer" /\ last.effects[1].dst = swapInfo.token_a
       /\ last.effects[2].kind = "transfer" /\ last.effects[2].dst = swapInfo.token_b
       /\ last.effects[3].kind = "mint_to"
       /\ last.effects[1].amt > 0
       /\ last.effects[1].amt <= last.request.maximum_token_a_amount
       /\ last.effects[2].amt > 0
       /\ last.effects[2].amt <= last.request.maximum_token_b_amount
  /\ swapInfo.is_initialized =>
       \A a \in DepositArgs :
         LET out   == deposit(globalState, swapInfo, amount, supply, a)
             basis == IF supply[a.pool_mint] > 0 THEN supply[a.pool_mint]
                                                 ELSE globalState.initial_supply
             pool  == IF supply[a.pool_mint] > 0 THEN a.pool_token_amount
                                                 ELSE globalState.initial_supply
             ta    == CeilDiv(pool * amount[a.token_a], basis)
             tb    == CeilDiv(pool * amount[a.token_b], basis)
             zero  == ta = 0 \/ tb = 0
             over  == ta > a.maximum_token_a_amount \/ tb > a.maximum_token_b_amount
         IN deposit_checks(globalState, swapInfo, a) = "Ok" =>
              IF basis = 0
                THEN out.result = "ZeroTradingTokens" /\ out.effects = <<>>
                ELSE /\ (zero \/ over) =>
                          /\ out.result \in {"ZeroTradingTokens", "ExceededSlippage"}
                          /\ out.effects = <<>>
                          /\ out.amount = amount
                          /\ out.supply = supply
                     /\ (zero /\ ~over) => out.result = "ZeroTradingTokens"
                     /\ (over /\ ~zero) => out.result = "ExceededSlippage"

\* A deposit of 30001 pool shares needing 151 of each token was rejected for
\* a maximum of 100 on one side, and nothing was transferred or minted.
C20_Witness ==
  /\ last.op = "Deposit"
  /\ last.result = "ExceededSlippage"
  /\ last.requested = 30001
  /\ last.effects = <<>>
  /\ swapInfo.is_initialized

\* C21: a Withdraw whose converted amount on either side is below the
\* caller's minimum for that side is rejected with ExceededSlippage, one whose
\* converted amount is zero while that reserve holds something is rejected
\* with ZeroTradingTokens, in both cases before the burn and the transfers; a
\* successful Withdraw pays a nonzero amount from every nonzero reserve.
C21_WithdrawAmountsChecked ==
  /\ (last.op = "Withdraw" /\ last.result \in {"ZeroTradingTokens", "ExceededSlippage"}) =>
       last.effects = <<>>
  /\ Succeeded("Withdraw") =>
       /\ Len(last.effects) = 3
       /\ last.effects[1].kind = "burn"
       /\ last.effects[2].kind = "transfer" /\ last.effects[2].src = swapInfo.token_a
       /\ last.effects[3].kind = "transfer" /\ last.effects[3].src = swapInfo.token_b
       /\ last.effects[2].amt > 0
       /\ last.effects[2].amt >= last.request.minimum_token_a_amount
       /\ last.effects[3].amt > 0
       /\ last.effects[3].amt >= last.request.minimum_token_b_amount
  /\ swapInfo.is_initialized =>
       \A a \in WithdrawArgs(supply) :
         LET out    == withdraw(globalState, swapInfo, amount, supply, a)
             capped == Min(a.pool_token_amount, supply[a.pool_mint] - MIN_LP_SUPPLY)
             ta     == Min(amount[a.token_a],
                           (capped * amount[a.token_a]) \div supply[a.pool_mint])
             tb     == Min(amount[a.token_b],
                           (capped * amount[a.token_b]) \div supply[a.pool_mint])
             zero   == (ta = 0 /\ amount[a.token_a] # 0) \/ (tb = 0 /\ amount[a.token_b] # 0)
             under  == ta < a.minimum_token_a_amount \/ tb < a.minimum_token_b_amount
         IN ( /\ withdraw_checks(globalState, swapInfo, a) = "Ok"
              /\ supply[a.pool_mint] >= MIN_LP_SUPPLY ) =>
              /\ (zero \/ under) =>
                   /\ out.result \in {"ZeroTradingTokens", "ExceededSlippage"}
                   /\ out.effects = <<>>
                   /\ out.amount = amount
                   /\ out.supply = supply
              /\ (zero /\ ~under) => out.result = "ZeroTradingTokens"
              /\ (under /\ ~zero) => out.result = "ExceededSlippage"

\* A withdrawal of no pool shares from reserves of 1000 was rejected as
\* paying nothing, and nothing was burned.
C21_Witness ==
  /\ last.op = "Withdraw"
  /\ last.result = "ZeroTradingTokens"
  /\ last.requested = 0
  /\ last.effects = <<>>
  /\ swapInfo.is_initialized
  /\ amount[swapInfo.token_a] > 0

\* C22 as stated: for every amount > 0 and numerator > 0 the fee is at least
\* 1, whatever the denominator.
C22_FeeAtLeastOne ==
  ( /\ call.fn = "calculate_fee"
    /\ call.args[1] > 0
    /\ call.args[2] > 0 ) => (call.ret # None /\ call.ret >= 1)

\* C22, amended: for every amount > 0 and numerator > 0, the fee is at least
\* 1 when the denominator is nonzero and the product amount * numerator fits
\* the unsigned 128-bit range, and there is no value otherwise; it is never 0.
C22_FeeAtLeastOneOrNoValue ==
  ( /\ call.fn = "calculate_fee"
    /\ call.args[1] > 0
    /\ call.args[2] > 0 ) =>
    LET fits == call.args[1] * call.args[2] <= U128_MAX
    IN /\ (fits /\ call.args[3] # 0) => (call.ret # None /\ call.ret >= 1)
       /\ (~fits \/ call.args[3] = 0) => call.ret = None

\* The fee of 1 token at rate 25/10000 is one token, not zero.
C22_Witness ==
  /\ call.fn = "calculate_fee"
  /\ call.args = <<1, 25, 10000>>
  /\ call.ret = 1

\* C23: calculate_fee is 0 when the numerator or the amount is 0 (also with a
\* zero denominator); otherwise it has no value when amount * numerator does
\* not fit the unsigned 128-bit range or the denominator is 0; otherwise it
\* is the larger of 1 and the floor of amount * numerator / denominator.
C23_FeeReference ==
  call.fn = "calculate_fee" =>
    LET a == call.args[1]
        n == call.args[2]
        d == call.args[3]
        q == (a * n) \div d
    IN call.ret = IF n = 0 \/ a = 0 THEN 0
                  ELSE IF a * n > U128_MAX \/ d = 0 THEN None
                  ELSE IF q >= 1 THEN q ELSE 1

\* A product that does not fit gave no value, not a wrapped fee or zero.
C23_Witness ==
  /\ call.fn = "calculate_fee"
  /\ call.args = <<8388608, 2, 10000>>
  /\ call.ret = None

\* C24: for every schedule that passes Fees::validate and every trade amount
\* greater than zero, the return fee and the fixed fee of the schedule's
\* curve family together are strictly less than the amount.
C24_FeesBelowAmount ==
  ( /\ call.fn = "Fees::return_fee+fixed_fee"
    /\ Fees_validate(call.args[1])
    /\ call.args[2] > 0 ) =>
    /\ call.ret[1] # None
    /\ call.ret[2] # None
    /\ call.ret[1] + call.ret[2] < call.args[2]

\* The numerators Fees::return_fee and Fees::fixed_fee select for a family.
ReturnNumerator(f, swap_curve) ==
  IF swap_curve.curve_type = "Stable" THEN f.stable_return_fee_numerator
                                      ELSE f.constant_product_return_fee_numerator

FixedNumerator(f, swap_curve) ==
  IF swap_curve.curve_type = "Stable" THEN f.stable_fixed_fee_numerator
                                      ELSE f.constant_product_fixed_fee_numerator

\* C24, amended: for every schedule that passes Fees::validate and every
\* trade amount greater than zero, each fee has a value unless its product
\* amount * numerator does not fit the unsigned 128-bit range; when both
\* have a value, their sum is strictly less than the amount unless one of
\* them is the one-token minimum fee (nonzero numerator and
\* amount * numerator < denominator), and it never exceeds the amount by
\* more than one.
C24_FeesBelowAmountUnlessMinimum ==
  ( /\ call.fn = "Fees::return_fee+fixed_fee"
    /\ Fees_validate(call.args[1])
    /\ call.args[2] > 0 ) =>
    LET f  == call.args[1]
        a  == call.args[2]
        rn == ReturnNumerator(f, call.args[3])
        fn == FixedNumerator(f, call.args[3])
        d  == f.fee_denominator
    IN /\ call.ret[1] = None <=> (rn > 0 /\ a > U128_MAX \div rn)
       /\ call.ret[2] = None <=> (fn > 0 /\ a > U128_MAX \div fn)
       /\ (call.ret[1] # None /\ call.ret[2] # None) =>
            LET minimum == (rn > 0 /\ a * rn < d) \/ (fn > 0 /\ a * fn < d)
            IN /\ ~minimum => call.ret[1] + call.ret[2] < a
               /\ call.ret[1] + call.ret[2] <= a + 1

\* A trade of one token under the valid schedule 25/10000 and 5/10000 is
\* charged one token on each axis.
C24_Witness ==
  /\ call.fn = "Fees::return_fee+fixed_fee"
  /\ call.args[1] = MkFees(<<25, 5, 4, 1, 10000>>)
  /\ call.args[2] = 1
  /\ call.ret = <<1, 1>>

Numerators ==
  { "constant_product_return_fee_numerator", "constant_product_fixed_fee_numerator",
    "stable_return_fee_numerator", "stable_fixed_fee_numerator" }

\* C25: Fees::validate accepts a schedule exactly when all five fields are
\* zero, or every numerator is strictly less than the denominator and in
\* each curve family the fixed numerator is strictly less than the
\* denominator minus the return numerator; validating the same schedule
\* again gives the same verdict.
C25_ValidateReference ==
  call.fn = "Fees::validate" =>
    LET f == call.args[1]
        zero   == f.fee_denominator = 0 /\ \A n \in Numerators : f[n] = 0
        bounds == /\ \A n \in Numerators : f[n] < f.fee_denominator
                  /\ f.constant_product_fixed_fee_numerator
                       < f.fee_denominator - f.constant_product_return_fee_numerator
                  /\ f.stable_fixed_fee_numerator
                       < f.fee_denominator - f.stable_return_fee_numerator
    IN /\ call.ret[1] = (zero \/ bounds)
       /\ call.ret[2] = call.ret[1]

\* A schedule whose constant-product numerators 1 and 2 are each below the
\* denominator 3 but together reach it was rejected.
C25_Witness ==
  /\ call.fn = "Fees::validate"
  /\ call.args[1] = MkFees(<<1, 2, 0, 0, 3>>)
  /\ call.ret = <<FALSE, FALSE>>

\* C26: SwapConstraints::validate_fees accepts a proposed schedule exactly
\* when each of its four numerators is at least the floor's and its
\* denominator equals the floor's.
C26_ValidateFeesReference ==
  call.fn = "SwapConstraints::validate_fees" =>
    LET floor == call.args[1]
        fees  == call.args[2]
    IN call.ret = ( /\ \A n \in Numerators : fees[n] >= floor[n]
                    /\ fees.fee_denominator = floor.fee_denominator )

\* A schedule with every numerator above the program's floor was rejected
\* because its denominator is 3 and the floor's is 10000.
C26_Witness ==
  /\ call.fn = "SwapConstraints::validate_fees"
  /\ call.args = <<MINIMUM_FEES, MkFees(<<1, 1, 1, 1, 3>>)>>
  /\ call.ret = FALSE

\* Errors of the token program's transfer, as opposed to the handler's checks.
TransferErrors == {"MintMismatch", "InsufficientFunds"}

\* C27: a successful Swap issued exactly three transfers, in this order: the
\* amount the quote reports as consumed less the owner fee from the caller
\* to the source reserve, the owner fee from the caller to the fee-recipient
\* account, the quoted destination amount from the destination reserve to
\* the caller; the two debits of the caller add up to the consumed amount;
\* and a Swap that failed an account check, got no quote or failed the
\* slippage check issued no transfer.
C27_SwapTransfersInOrder ==
  /\ Succeeded("Swap") =>
       LET a     == last.request
           quote == curve_swap(swapInfo.swap_curve, a.amount_in,
                               amount[a.swap_source] - last.effects[1].amt,
                               amount[a.swap_destination] + last.effects[3].amt,
                               globalState.fees)
       IN /\ Len(last.effects) = 3
          /\ quote # NoResult
          /\ last.effects[1] = Effect("transfer", a.source, a.swap_source,
                                      quote.source_amount_swapped - quote.owner_fee)
          /\ last.effects[2] = Effect("transfer", a.source, a.fee_account, quote.owner_fee)
          /\ last.effects[3] = Effect("transfer", a.swap_destination, a.destination,
                                      quote.destination_amount_swapped)
          /\ last.effects[1].amt + last.effects[2].amt = quote.source_amount_swapped
          /\ quote.destination_amount_swapped >= a.minimum_amount_out
          /\ swap_checks(globalState, swapInfo, a) = "Ok"
  /\ (last.op = "Swap" /\ last.result \notin ({"Ok"} \cup TransferErrors)) =>
       last.effects = <<>>
  /\ \A a \in SwapArgs :
       LET out == swap(globalState, swapInfo, amount, supply, a)
       IN out.effects # <<>> =>
            /\ swap_checks(globalState, swapInfo, a) = "Ok"
            /\ LET quote == curve_swap(swapInfo.swap_curve, a.amount_in, amount[a.swap_source],
                                       amount[a.swap_destination], globalState.fees)
               IN /\ quote # NoResult
                  /\ quote.destination_amount_swapped >= a.minimum_amount_out
                  /\ out.effects[1].amt = quote.source_amount_swapped - quote.owner_fee

\* A swap of 100 with a nonzero owner fee: 99 to the reserve, 1 to the fee
\* recipient, and the quoted amount back.
C27_Witness ==
  /\ Succeeded("Swap")
  /\ last.request.amount_in = 100
  /\ last.effects[1].amt = 99
  /\ last.effects[2].amt = 1
  /\ last.effects[3].amt > 0

\* What C28 asks of the reserve accounts of a swap request.
ReservesWellFormed(si, a) ==
  /\ {a.swap_source, a.swap_destination} = {si.token_a, si.token_b}
  /\ a.swap_source # a.swap_destination
  /\ a.swap_source # a.source
  /\ a.swap_destination # a.destination

\* C28: a Swap succeeds, and moves tokens at all, only if its swap-source
\* and swap-destination accounts are the pool's two recorded reserves,
\* differ from each other, and are not the caller's own source and
\* destination accounts; a successful swap pays into reserve A and out of
\* reserve B exactly when the swap-source is reserve A, and into B and out
\* of A otherwise.
C28_SwapReserves ==
  /\ Succeeded("Swap") =>
       /\ ReservesWellFormed(swapInfo, last.request)
       /\ last.effects[1].dst = last.request.swap_source
       /\ last.effects[3].src = last.request.swap_destination
       /\ (last.request.swap_source = swapInfo.token_a) <=>
            (last.effects[1].dst = swapInfo.token_a /\ last.effects[3].src = swapInfo.token_b)
       /\ (last.request.swap_source # swapInfo.token_a) <=>
            (last.effects[1].dst = swapInfo.token_b /\ last.effects[3].src = swapInfo.token_a)
  /\ swapInfo.is_initialized =>
       \A a \in SwapArgs :
         LET out == swap(globalState, swapInfo, amount, supply, a)
         IN ~ReservesWellFormed(swapInfo, a) => (out.result # "Ok" /\ out.effects = <<>>)

\* A swap from reserve B's side: tokens went into reserve B and out of
\* reserve A.
C28_Witness ==
  /\ Succeeded("Swap")
  /\ last.request.swap_source = swapInfo.token_b
  /\ last.effects[1].dst = swapInfo.token_b
  /\ last.effects[3].src = swapInfo.token_a
  /\ last.effects[3].amt > 0

\* C29: a Swap succeeds only if the owner of the fee-recipient account it
\* supplies is the fee-recipient principal stored in the Governance Record
\* when it runs; whenever the stored principal is another one, also after a
\* SetGlobalState replaced it, the swap is rejected as InvalidOwner (if it
\* gets that far) and no transfer is issued.
C29_FeeRecipientIsCurrent ==
  /\ Succeeded("Swap") =>
       /\ TokenAccountShape[last.request.fee_account].owner = globalState.fee_owner
       /\ last.effects[2].dst = last.request.fee_account
  /\ swapInfo.is_initialized =>
       \A a \in SwapArgs :
         LET out == swap(globalState, swapInfo, amount, supply, a)
         IN TokenAccountShape[a.fee_account].owner # globalState.fee_owner =>
              /\ out.result \in {"InvalidOwner", "IncorrectProgramId", "InvalidProgramAddress",
                                 "InvalidAccountData", "NotInitializedState"}
              /\ out.effects = <<>>
              /\ out.amount = amount
              /\ (a.swap_owner_ok /\ a.gs_pda_ok /\ a.authority = PoolAuthority
                  /\ globalState.is_initialized) => out.result = "InvalidOwner"

\* A pool created while "bob" was the fee recipient (the six-decimals
\* configurations) refused a swap after SetGlobalState had made "alice" the
\* recipient: every fee account the refused requests carry is bob's or the
\* pool's.
C29_Witness ==
  /\ last.op = "Swap"
  /\ last.result = "InvalidOwner"
  /\ last.effects = <<>>
  /\ swapInfo.is_initialized
  /\ swapInfo.pool_mint = "LP6"
  /\ globalState.fee_owner = "alice"

\* C30: a successful Deposit into a pool whose pool-share supply was nonzero
\* minted the caller's pool-share amount and took that amount's proportion
\* of each reserve against the supply before it; one into a pool whose
\* supply was zero minted the Governance Record's initial supply, whatever
\* amount the caller named, and took the proportion of the initial supply
\* against itself, that is the whole of each reserve.
C30_DepositBasis ==
  Succeeded("Deposit") =>
    LET a       == last.request
        minted  == last.effects[3].amt
        before  == supply[a.pool_mint] - minted
        token_a == amount[a.token_a] - last.effects[1].amt
        token_b == amount[a.token_b] - last.effects[2].amt
    IN /\ last.effects[3].kind = "mint_to"
       /\ before >= 0
       /\ before > 0 =>
            /\ minted = a.pool_token_amount
            /\ last.effects[1].amt = CeilDiv(a.pool_token_amount * token_a, before)
            /\ last.effects[2].amt = CeilDiv(a.pool_token_amount * token_b, before)
       /\ before = 0 =>
            /\ minted = globalState.initial_supply
            /\ last.effects[1].amt
                 = CeilDiv(globalState.initial_supply * token_a, globalState.initial_supply)
            /\ last.effects[2].amt
                 = CeilDiv(globalState.initial_supply * token_b, globalState.initial_supply)
            /\ last.effects[1].amt = token_a
            /\ last.effects[2].amt = token_b

\* A pool created with an initial supply of zero received a deposit naming
\* 30001 pool shares after the configured initial supply had become 200000:
\* 200000 were minted.
C30_Witness ==
  /\ Succeeded("Deposit")
  /\ last.request.pool_token_amount = 30001
  /\ last.effects[3].amt = 200000
  /\ supply[last.request.pool_mint] = 200000

\* C31: a successful Withdraw first burns the pool-share amount, capped at
\* the supply above the floor, from the caller, and only then transfers to
\* the caller each side's amount from its reserve, side A before side B and
\* a side whose amount is zero not at all; each transferred amount is the
\* burned amount's proportion of the reserve rounded down, at most the
\* reserve's balance before the operation, and no reserve balance goes below
\* zero.  process_withdraw_all_token_types applied to the pool with one
\* reserve emptied burns and then pays from the other reserve only.
C31_WithdrawBurnsThenPays ==
  [][ /\ (last'.op = "Withdraw" /\ last'.result = "Ok") =>
           LET a      == last'.request
               e      == last'.effects
               total  == supply[swapInfo.pool_mint]
               burned == Min(last'.requested, total - MIN_LP_SUPPLY)
               ta     == Min(amount[swapInfo.token_a],
                             (burned * amount[swapInfo.token_a]) \div total)
               tb     == Min(amount[swapInfo.token_b],
                             (burned * amount[swapInfo.token_b]) \div total)
           IN /\ Len(e) >= 1
              /\ e[1] = Effect("burn", a.user_pool, swapInfo.pool_mint, burned)
              /\ SubSeq(e, 2, Len(e))
                   = (IF ta > 0 THEN << Effect("transfer", swapInfo.token_a, a.user_a, ta) >>
                                ELSE <<>>)
                     \o (IF tb > 0 THEN << Effect("transfer", swapInfo.token_b, a.user_b, tb) >>
                                   ELSE <<>>)
              /\ \A i \in 2..Len(e) : e[i].amt > 0 /\ e[i].amt <= amount[e[i].src]
              /\ supply'[swapInfo.pool_mint] = total - burned
              /\ amount'[swapInfo.token_a] = amount[swapInfo.token_a] - ta
              /\ amount'[swapInfo.token_b] = amount[swapInfo.token_b] - tb
              /\ amount'[swapInfo.token_a] >= 0
              /\ amount'[swapInfo.token_b] >= 0
      /\ (swapInfo.is_initialized /\ supply[swapInfo.pool_mint] > MIN_LP_SUPPLY) =>
           \A r \in {swapInfo.token_a, swapInfo.token_b} :
             \A a \in WithdrawArgs(supply) :
               LET out == withdraw(globalState, swapInfo, Emptied(r), supply, a)
               IN out.result = "Ok" =>
                    /\ Len(out.effects) = 2
                    /\ out.effects[1].kind = "burn"
                    /\ out.effects[2].kind = "transfer"
                    /\ out.effects[2].src \in {swapInfo.token_a, swapInfo.token_b} \ {r}
                    /\ out.effects[2].amt > 0
                    /\ out.amount[r] = 0 ]_vars

\* 30001 pool shares of 200000 were burned and then 150 of each reserve of
\* 1000 were paid to the caller, leaving 850 in each.
C31_Witness ==
  /\ last.op = "Withdraw"
  /\ last.result = "Ok"
  /\ Len(last.effects) = 3
  /\ last.effects[1].kind = "burn" /\ last.effects[1].amt = 30001
  /\ last.effects[2].kind = "transfer" /\ last.effects[2].amt = 150
  /\ last.effects[3].kind = "transfer" /\ last.effects[3].amt = 150
  /\ amount[swapInfo.token_a] = 850
  /\ amount[swapInfo.token_b] = 850

\* C32: Fees::return_fee and Fees::fixed_fee take the constant-product
\* numerator of their axis when the curve family is constant-product, the
\* stable numerator when it is stable and the constant-product numerator for
\* any other family, and return exactly calculate_fee of the trading tokens,
\* that numerator and the schedule's denominator; the return axis takes a
\* return numerator and the fixed axis a fixed numerator.
C32_FeeAxisAndFamily ==
  call.fn = "Fees::return_fee+fixed_fee" =>
    LET f      == call.args[1]
        tokens == call.args[2]
        stable == call.args[3].curve_type = "Stable"
        rn     == IF stable THEN f.stable_return_fee_numerator
                            ELSE f.constant_product_return_fee_numerator
        fn     == IF stable THEN f.stable_fixed_fee_numerator
                            ELSE f.constant_product_fixed_fee_numerator
    IN /\ call.ret[1] = calculate_fee(tokens, rn, f.fee_denominator)
       /\ call.ret[2] = calculate_fee(tokens, fn, f.fee_denominator)

\* Under a schedule of four different numerators, 5000, 4999, 1 and 0 over
\* 10000, a trade of 1000 on a curve that is neither constant-product nor
\* stable is charged 500 on the return axis and 499 on the fixed axis.
C32_Witness ==
  /\ call.fn = "Fees::return_fee+fixed_fee"
  /\ call.args[1] = MkFees(<<5000, 4999, 1, 0, 10000>>)
  /\ call.args[2] = 1000
  /\ call.args[3].curve_type = "Offset"
  /\ call.ret = <<500, 499>>

\* C33: while the pool-share supply of a pool is below MIN_LP_SUPPLY (the
\* initial supply minted at Initialize is not compared with the floor), no
\* Withdraw on the pool succeeds, burns or transfers anything, and every
\* Withdraw that passes the checks preceding the cap is rejected with
\* CalculationFailure; once the supply is at least the floor, as after
\* deposits, no Withdraw is rejected with CalculationFailure.
C33_BelowFloorNoWithdraw ==
  /\ (last.op = "Withdraw" /\ last.result = "CalculationFailure") =>
       /\ last.effects = <<>>
       /\ supply[swapInfo.pool_mint] < MIN_LP_SUPPLY
  /\ Succeeded("Withdraw") => supply[swapInfo.pool_mint] + last.effects[1].amt >= MIN_LP_SUPPLY
  /\ swapInfo.is_initialized =>
       \A a \in LiquidityWithdrawArgs \cup WithdrawArgs(supply) :
         LET out == withdraw(globalState, swapInfo, amount, supply, a)
         IN IF supply[swapInfo.pool_mint] < MIN_LP_SUPPLY
              THEN /\ out.result # "Ok"
                   /\ out.effects = <<>>
                   /\ out.amount = amount
                   /\ out.supply = supply
                   /\ withdraw_checks(globalState, swapInfo, a) = "Ok"
                        => out.result = "CalculationFailure"
              ELSE out.result # "CalculationFailure"

\* A pool was created with 70000 pool shares, below the floor of 100000, and
\* a withdrawal of 30001 of them was rejected with CalculationFailure.
C33_Witness ==
  /\ last.op = "Withdraw"
  /\ last.result = "CalculationFailure"
  /\ last.requested = 30001
  /\ last.effects = <<>>
  /\ swapInfo.is_initialized
  /\ supply[swapInfo.pool_mint] = 70000

\* C34: every successful Deposit and every successful Withdraw on a pool
\* whose pool-share supply is not zero leaves, on side A and on side B, at
\* least as much reserve behind each pool share as before: the reserve after
\* times the supply before is at least the reserve before times the supply
\* after.  Over a sequence of such instructions with no Swap in between the
\* reserve per pool share therefore never decreases.
C34_ReservePerShareNeverDecreases ==
  [][ ( /\ last'.op \in {"Deposit", "Withdraw"}
        /\ last'.result = "Ok"
        /\ supply[swapInfo.pool_mint] > 0 ) =>
      \A r \in {swapInfo.token_a, swapInfo.token_b} :
        amount'[r] * supply[swapInfo.pool_mint] >= amount[r] * supply'[swapInfo.pool_mint] ]_vars

\* A deposit of 30001 pool shares into a pool of 200000 shares over reserves
\* of 1000 took 151 on each side, and the withdrawal of 30001 shares that
\* followed paid 150: 200000 shares are now backed by 1001 on each side.
C34_Witness ==
  /\ last.op = "Withdraw"
  /\ last.result = "Ok"
  /\ trades = 2
  /\ supply[swapInfo.pool_mint] = 200000
  /\ amount[swapInfo.token_a] = 1001
  /\ amount[swapInfo.token_b] = 1001

\* C35 as stated: a successful Deposit of p pool shares immediately followed
\* by a successful Withdraw of the same p returns to the caller, on each
\* side, no more than the deposit took.
C35_RoundTripReturnsNoMore ==
  [][ ( /\ last.op = "Deposit" /\ last.result = "Ok"
        /\ last'.op = "Withdraw" /\ last'.result = "Ok"
        /\ last'.requested = last.requested ) =>
      ( /\ amount[swapInfo.token_a] - amount'[swapInfo.token_a] <= last.effects[1].amt
        /\ amount[swapInfo.token_b] - amount'[swapInfo.token_b] <= last.effects[2].amt ) ]_vars

\* C35, amended: a successful Deposit of p pool shares into a pool whose
\* pool-share supply was not zero, immediately followed by a successful
\* Withdraw of the same p, returns to the caller, on each side, no more than
\* the deposit took.  (A Deposit into a pool of zero supply mints the
\* configured initial supply whatever p is, and the Withdraw that follows
\* can return more than the Deposit took.)
C35_RoundTripOnLivePool ==
  [][ ( /\ last.op = "Deposit" /\ last.result = "Ok"
        /\ last'.op = "Withdraw" /\ last'.result = "Ok"
        /\ last'.requested = last.requested
        /\ supply[swapInfo.pool_mint] - last.effects[3].amt > 0 ) =>
      ( /\ amount[swapInfo.token_a] - amount'[swapInfo.token_a] <= last.effects[1].amt
        /\ amount[swapInfo.token_b] - amount'[swapInfo.token_b] <= last.effects[2].amt
        /\ amount'[last.request.user_a] <= amount[last.request.user_a] + last.effects[1].amt
        /\ amount'[last.request.user_b] <= amount[last.request.user_b] + last.effects[2].amt ) ]_vars

\* 30001 pool shares were deposited into a pool of 200000 for 151 on each
\* side and withdrawn at once for 150 on each side.
C35_Witness ==
  /\ last.op = "Withdraw"
  /\ last.result = "Ok"
  /\ last.requested = 30001
  /\ trades = 2
  /\ last.effects[1].amt = 30001
  /\ last.effects[2].amt = 150
  /\ last.effects[3].amt = 150
  /\ supply[swapInfo.pool_mint] = 200000
  /\ amount[swapInfo.token_a] = 1001

\* C36: for a schedule that passes Fees::validate and has a nonzero
\* denominator, the return fee and the fixed fee of either curve family
\* computed on an amount are each at most that amount whenever they have a
\* value (they have none only when amount * numerator does not fit the
\* unsigned 128-bit range), so the amount minus either fee is not negative;
\* and in every quote of a constant-product swap, the owner fee is at most
\* the amount consumed from the caller, from which process_swap subtracts it.
C36_SingleFeeAtMostAmount ==
  ( /\ call.fn = "Fees::return_fee+fixed_fee"
    /\ Fees_validate(call.args[1])
    /\ call.args[1].fee_denominator # 0 ) =>
    LET f  == call.args[1]
        a  == call.args[2]
        rn == ReturnNumerator(f, call.args[3])
        fn == FixedNumerator(f, call.args[3])
        q  == curve_swap(call.args[3], a, 1000, 1000, f)
    IN /\ call.ret[1] = None <=> (a > 0 /\ rn > 0 /\ a > U128_MAX \div rn)
       /\ call.ret[2] = None <=> (a > 0 /\ fn > 0 /\ a > U128_MAX \div fn)
       /\ \A i \in 1..2 : call.ret[i] # None => (call.ret[i] <= a /\ a - call.ret[i] >= 0)
       /\ (call.args[3].curve_type = "ConstantProduct" /\ q # NoResult) =>
            /\ q.owner_fee = call.ret[2]
            /\ q.owner_fee <= q.source_amount_swapped
            /\ q.source_amount_swapped - q.owner_fee >= 0

\* Under the valid schedule whose constant-product fixed numerator is 9999
\* over 10000, the fixed fee of a trade of one token is the one-token
\* minimum: the whole amount, and no more.
C36_Witness ==
  /\ call.fn = "Fees::return_fee+fixed_fee"
  /\ call.args[1] = MkFees(<<0, 9999, 9999, 0, 10000>>)
  /\ Fees_validate(call.args[1])
  /\ call.args[2] = 1
  /\ call.args[3].curve_type = "ConstantProduct"
  /\ call.ret = <<0, 1>>
====
